---------------------------- MODULE Spec2Model ----------------------------
(***************************************************************************)
(* A model of the vidio terminal application: the screen state machine of  *)
(* src/tui/app.rs, the FileList component of src/tui/components/list.rs,   *)
(* the progress bar of src/tui/components/progress.rs, the background job  *)
(* pipeline spawned by App::start_real_processing, the identifier          *)
(* normalisation of src/core/transcript.rs and the storage operations of   *)
(* src/core/storage.rs.                                                    *)
(*                                                                         *)
(* Strings are sequences of one-character strings.  Indices of Rust Vecs   *)
(* are kept 0-based: element i of a Vec v is v[i + 1] here.                *)
(* Option<T> is a sequence of length 0 (None) or 1 (Some).                 *)
(***************************************************************************)
EXTENDS Integers, Sequences, FiniteSets, TLC

VARIABLES
    app,            \* the App struct of src/tui/app.rs, one field per field
    running,        \* run_tui's loop: "running", "quit" or "error"
    processing_rx,  \* the unbounded channel: messages sent and not yet received
    jobs,           \* the tasks spawned by App::start_real_processing
    fs,             \* the file system: the entries that exist, by path
    recency,        \* the paths of fs, the most recently modified first
    applied,        \* history: the messages handle_tick has processed, in order
    del,            \* history: the last StorageService::delete_file call
    env             \* the process environment: YTRANSCRIPT_ALLOW_OPENAI, if set

vars == <<app, running, processing_rx, jobs, fs, recency, applied, del, env>>

-----------------------------------------------------------------------------
(* Option, saturating arithmetic, sequences *)

None == <<>>

Some(x) == <<x>>

IsSome(o) == o # <<>>

Unwrap(o) == o[1]

Min(a, b) == IF a < b THEN a ELSE b

Max(a, b) == IF a > b THEN a ELSE b

SatSub(a, b) == IF a > b THEN a - b ELSE 0

Range(s) == {s[i] : i \in 1..Len(s)}

\* the subsequence of s at the positions for which Keep holds, in order
RECURSIVE FilterSeq(_, _)
FilterSeq(s, keep) ==
    IF s = <<>> THEN <<>>
    ELSE (IF Head(s) \in keep THEN <<Head(s)>> ELSE <<>>) \o FilterSeq(Tail(s), keep)

\* all sequences without repetition over the set S, of length at most n
RECURSIVE DistinctSeqs(_, _)
DistinctSeqs(S, n) ==
    IF n = 0 \/ S = {} THEN {<<>>}
    ELSE {<<>>} \cup UNION {{<<x>> \o t : t \in DistinctSeqs(S \ {x}, n - 1)} : x \in S}

-----------------------------------------------------------------------------
(* Bounds of the model *)

\* the longest item list given to a FileList
MaxItems == 3

\* the tallest list area given to FileList::render
MaxHeight == 5

-----------------------------------------------------------------------------
(* FileList: src/tui/components/list.rs *)

\* FileList::new
FileList_new(items) ==
    [items |-> items,
     selected |-> IF items # <<>> THEN Some(0) ELSE None,
     offset |-> 0,
     selected_items |-> [i \in 1..Len(items) |-> FALSE],
     viewport_size |-> 0]

\* adjust_offset with a viewport that is not floored at one row
adjust_offset_nofloor(fl) ==
    IF fl.items = <<>> THEN [fl EXCEPT !.offset = 0]
    ELSE LET viewport == fl.viewport_size
             max_index == Len(fl.items) - 1
             selected == IF IsSome(fl.selected)
                         THEN Min(Unwrap(fl.selected), max_index) ELSE 0
             max_offset == SatSub(Len(fl.items), viewport)
             offset == Min(fl.offset, max_offset)
         IN [fl EXCEPT !.selected = Some(selected),
                       !.offset = IF selected < offset THEN selected
                                  ELSE IF selected >= offset + viewport
                                       THEN selected + 1 - viewport
                                       ELSE offset]

\* FileList::adjust_offset
adjust_offset(fl) ==
    IF fl.items = <<>> THEN [fl EXCEPT !.offset = 0]
    ELSE LET viewport == Max(fl.viewport_size, 1)
             max_index == Len(fl.items) - 1
             selected == IF IsSome(fl.selected)
                         THEN Min(Unwrap(fl.selected), max_index) ELSE 0
             max_offset == SatSub(Len(fl.items), viewport)
             offset == Min(fl.offset, max_offset)
         IN [fl EXCEPT !.selected = Some(selected),
                       !.offset = IF selected < offset THEN selected
                                  ELSE IF selected >= offset + viewport
                                       THEN selected + 1 - viewport
                                       ELSE offset]

\* ListState::select followed by adjust_offset, the tail of every movement
select_and_adjust(fl, i) == adjust_offset([fl EXCEPT !.selected = Some(i)])

\* FileList::next stopping at the last entry
FileList_next_clamped(fl) ==
    IF fl.items = <<>> THEN fl
    ELSE select_and_adjust(fl, IF IsSome(fl.selected)
                               THEN Min(Unwrap(fl.selected) + 1, Len(fl.items) - 1)
                               ELSE 0)

\* FileList::next
FileList_next(fl) ==
    IF fl.items = <<>> THEN fl
    ELSE select_and_adjust(fl, IF IsSome(fl.selected)
                               THEN (Unwrap(fl.selected) + 1) % Len(fl.items)
                               ELSE 0)

\* FileList::previous
FileList_previous(fl) ==
    IF fl.items = <<>> THEN fl
    ELSE select_and_adjust(fl, IF IsSome(fl.selected)
                               THEN (IF Unwrap(fl.selected) = 0
                                     THEN Len(fl.items) - 1
                                     ELSE Unwrap(fl.selected) - 1)
                               ELSE 0)

\* FileList::page_down wrapping around the end of the list
FileList_page_down_wrapping(fl) ==
    IF fl.items = <<>> THEN fl
    ELSE select_and_adjust(fl, ((IF IsSome(fl.selected) THEN Unwrap(fl.selected) ELSE 0)
                                  + Max(fl.viewport_size, 1)) % Len(fl.items))

\* FileList::page_down
FileList_page_down(fl) ==
    IF fl.items = <<>> THEN fl
    ELSE LET step == Max(fl.viewport_size, 1)
             current == IF IsSome(fl.selected) THEN Unwrap(fl.selected) ELSE 0
         IN select_and_adjust(fl, Min(current + step, Len(fl.items) - 1))

\* FileList::page_up
FileList_page_up(fl) ==
    IF fl.items = <<>> THEN fl
    ELSE LET step == Max(fl.viewport_size, 1)
             current == IF IsSome(fl.selected) THEN Unwrap(fl.selected) ELSE 0
         IN select_and_adjust(fl, SatSub(current, step))

\* FileList::go_home
FileList_go_home(fl) ==
    IF fl.items = <<>> THEN fl ELSE select_and_adjust(fl, 0)

\* FileList::go_end
FileList_go_end(fl) ==
    IF fl.items = <<>> THEN fl ELSE select_and_adjust(fl, Len(fl.items) - 1)

\* FileList::scroll_up
FileList_scroll_up(fl) ==
    IF fl.items = <<>> THEN fl
    ELSE LET current == IF IsSome(fl.selected) THEN Unwrap(fl.selected) ELSE 0
         IN select_and_adjust(fl, IF current = 0 THEN 0 ELSE current - 1)

\* FileList::scroll_down
FileList_scroll_down(fl) ==
    IF fl.items = <<>> THEN fl
    ELSE LET current == IF IsSome(fl.selected) THEN Unwrap(fl.selected) ELSE 0
             last == Len(fl.items) - 1
         IN select_and_adjust(fl, Min(current + 1, last))

\* FileList::toggle_selected flipping the mark of every entry
FileList_toggle_selected_all(fl) ==
    IF IsSome(fl.selected) /\ Unwrap(fl.selected) < Len(fl.selected_items)
    THEN [fl EXCEPT !.selected_items = [i \in 1..Len(fl.selected_items) |-> ~@[i]]]
    ELSE fl

\* FileList::toggle_selected
FileList_toggle_selected(fl) ==
    IF IsSome(fl.selected) /\ Unwrap(fl.selected) < Len(fl.selected_items)
    THEN [fl EXCEPT !.selected_items[Unwrap(fl.selected) + 1] = ~@]
    ELSE fl

\* FileList::get_selected
FileList_get_selected(fl) ==
    IF IsSome(fl.selected) /\ Unwrap(fl.selected) < Len(fl.items)
    THEN Some(fl.items[Unwrap(fl.selected) + 1])
    ELSE None

\* indices (1-based) of the marked items that exist, in list order
RECURSIVE MarkedFrom(_, _)
MarkedFrom(fl, i) ==
    IF i > Len(fl.selected_items) THEN <<>>
    ELSE (IF fl.selected_items[i] /\ i <= Len(fl.items)
          THEN <<fl.items[i]>> ELSE <<>>) \o MarkedFrom(fl, i + 1)

\* FileList::get_selected_items
FileList_get_selected_items(fl) == MarkedFrom(fl, 1)

\* FileList::render, lines 203-207: the viewport is the area height less the
\* two border rows, at least one row.  The List widget drawn afterwards with
\* the same state keeps an offset that already shows the selection.
FileList_render(fl, area_height) ==
    LET v == SatSub(area_height, 2)
    IN adjust_offset([fl EXCEPT !.viewport_size = IF v = 0 THEN 1 ELSE v])

\* update_items that selects the first entry of every new list
FileList_update_items_first(fl, new_items) ==
    adjust_offset(
      [fl EXCEPT !.items = new_items,
                 !.selected_items = [i \in 1..Len(new_items) |-> FALSE],
                 !.selected = IF new_items = <<>> THEN None ELSE Some(0),
                 !.offset = IF new_items = <<>> THEN 0 ELSE @])

\* update_items that keeps the marks of the indices the new list still has
FileList_update_items_keeping_marks(fl, new_items) ==
    adjust_offset(
      [fl EXCEPT !.items = new_items,
                 !.selected_items =
                     [i \in 1..Len(new_items) |->
                         i <= Len(fl.selected_items) /\ fl.selected_items[i]],
                 !.selected = IF new_items = <<>> THEN None
                              ELSE IF IsSome(@) THEN Some(Min(Unwrap(@), Len(new_items) - 1))
                              ELSE Some(0),
                 !.offset = IF new_items = <<>> THEN 0 ELSE @])

\* FileList::update_items; ListState::select(None) also resets the offset
FileList_update_items(fl, new_items) ==
    LET current_selected == fl.selected
        base == [fl EXCEPT !.items = new_items,
                           !.selected_items = [i \in 1..Len(new_items) |-> FALSE]]
    IN adjust_offset(
         IF new_items = <<>>
         THEN [base EXCEPT !.selected = None, !.offset = 0]
         ELSE IF IsSome(current_selected)
              THEN (IF Unwrap(current_selected) >= Len(new_items)
                    THEN [base EXCEPT !.selected = Some(Len(new_items) - 1)]
                    ELSE base)
              ELSE [base EXCEPT !.selected = Some(0)])

-----------------------------------------------------------------------------
(* Identifier normalisation: src/core/transcript.rs *)

\* char::is_ascii_alphanumeric
AsciiAlphanumeric ==
    {"a","b","c","d","e","f","g","h","i","j","k","l","m",
     "n","o","p","q","r","s","t","u","v","w","x","y","z",
     "A","B","C","D","E","F","G","H","I","J","K","L","M",
     "N","O","P","Q","R","S","T","U","V","W","X","Y","Z",
     "0","1","2","3","4","5","6","7","8","9"}

\* char::is_whitespace, on the characters the model types
Whitespace == {" ", "\t", "\n"}

\* const MAX_VIDEO_ID_LEN
MAX_VIDEO_ID_LEN == 128

RECURSIVE TrimStart(_)
TrimStart(s) ==
    IF s # <<>> /\ Head(s) \in Whitespace THEN TrimStart(Tail(s)) ELSE s

RECURSIVE TrimEnd(_)
TrimEnd(s) ==
    IF s # <<>> /\ s[Len(s)] \in Whitespace
    THEN TrimEnd(SubSeq(s, 1, Len(s) - 1)) ELSE s

\* str::trim
Trim(s) == TrimEnd(TrimStart(s))

\* the position of the first occurrence of pat in s, 0 when there is none
Find(s, pat) ==
    LET hits == {i \in 1..(Len(s) - Len(pat) + 1) : SubSeq(s, i, i + Len(pat) - 1) = pat}
    IN IF hits = {} THEN 0 ELSE CHOOSE i \in hits : \A j \in hits : i <= j

\* s.split(pat).nth(1): the piece between the first and the second occurrence
SplitNth1(s, pat) ==
    LET i == Find(s, pat)
        rest == SubSeq(s, i + Len(pat), Len(s))
        j == Find(rest, pat)
    IN IF i = 0 THEN None
       ELSE Some(IF j = 0 THEN rest ELSE SubSeq(rest, 1, j - 1))

\* s.split(c).next(): the piece before the first occurrence
SplitFirst(s, pat) ==
    LET i == Find(s, pat)
    IN IF i = 0 THEN s ELSE SubSeq(s, 1, i - 1)

\* sanitize_video_id without the limit on the length
sanitize_video_id_unbounded(raw) ==
    LET trimmed == Trim(raw)
    IN IF trimmed = <<>> THEN [ok |-> FALSE, val |-> <<>>]
       ELSE IF ~(\A i \in 1..Len(trimmed) :
                    trimmed[i] \in AsciiAlphanumeric \cup {"-", "_"})
            THEN [ok |-> FALSE, val |-> <<>>]
       ELSE [ok |-> TRUE, val |-> trimmed]

\* sanitize_video_id: Ok(trimmed) or Err
sanitize_video_id(raw) ==
    LET trimmed == Trim(raw)
    IN IF trimmed = <<>> THEN [ok |-> FALSE, val |-> <<>>]
       ELSE IF Len(trimmed) > MAX_VIDEO_ID_LEN THEN [ok |-> FALSE, val |-> <<>>]
       ELSE IF ~(\A i \in 1..Len(trimmed) :
                    trimmed[i] \in AsciiAlphanumeric \cup {"-", "_"})
            THEN [ok |-> FALSE, val |-> <<>>]
       ELSE [ok |-> TRUE, val |-> trimmed]

\* extract_video_id: Some(id) or None
extract_video_id(url) ==
    LET v_param == SplitNth1(url, <<"v", "=">>)
        youtu_be == SplitNth1(url, <<"y","o","u","t","u",".","b","e","/">>)
        raw_id == IF IsSome(v_param) THEN SplitFirst(Unwrap(v_param), <<"&">>)
                  ELSE IF IsSome(youtu_be) THEN SplitFirst(Unwrap(youtu_be), <<"?">>)
                  ELSE url
        r == sanitize_video_id(raw_id)
    IN IF r.ok THEN Some(r.val) ELSE None

-----------------------------------------------------------------------------
(* InputField: src/tui/components/input.rs.  A key is a record with field   *)
(* code; a character key also has field c.                                 *)

Key(code) == [code |-> code]

CharKey(c) == [code |-> "Char", c |-> c]

\* InputField::new
InputField_new == [value |-> <<>>, cursor |-> 0, focused |-> FALSE]

\* String::insert at a position
InsertAt(s, i, c) == SubSeq(s, 1, i) \o <<c>> \o SubSeq(s, i + 1, Len(s))

\* String::remove at a position
RemoveAt(s, i) == SubSeq(s, 1, i) \o SubSeq(s, i + 2, Len(s))

\* InputField::handle_key panics: String::insert or String::remove out of range
InputField_panics(f, key) ==
    \/ key.code = "Char" /\ f.cursor > Len(f.value)
    \/ key.code = "Backspace" /\ f.cursor > 0 /\ f.cursor - 1 >= Len(f.value)

\* InputField::handle_key
InputField_handle_key(f, key) ==
    CASE key.code = "Char" ->
           [f EXCEPT !.value = InsertAt(f.value, f.cursor, key.c),
                     !.cursor = f.cursor + 1]
      [] key.code = "Backspace" ->
           IF f.cursor > 0
           THEN [f EXCEPT !.cursor = f.cursor - 1,
                          !.value = RemoveAt(f.value, f.cursor - 1)]
           ELSE f
      [] key.code = "Delete" ->
           IF f.cursor < Len(f.value)
           THEN [f EXCEPT !.value = RemoveAt(f.value, f.cursor)]
           ELSE f
      [] key.code = "Left" ->
           IF f.cursor > 0 THEN [f EXCEPT !.cursor = f.cursor - 1] ELSE f
      [] key.code = "Right" ->
           IF f.cursor < Len(f.value) THEN [f EXCEPT !.cursor = f.cursor + 1] ELSE f
      [] key.code = "Home" -> [f EXCEPT !.cursor = 0]
      [] key.code = "End" -> [f EXCEPT !.cursor = Len(f.value)]
      [] OTHER -> f

\* InputField::is_valid
InputField_is_valid(f) == Trim(f.value) # <<>>

\* InputField::clear
InputField_clear(f) == [f EXCEPT !.value = <<>>, !.cursor = 0]

-----------------------------------------------------------------------------
(* ProgressBar: src/tui/components/progress.rs.  A finite progress value   *)
(* is in hundredths: 25 is 0.25.                                           *)

\* an f64: a finite value in hundredths, or an infinity (h is its sign), or
\* NaN
F64(h) == [class |-> "finite", h |-> h]

Infinity(negative) == [class |-> "inf", h |-> IF negative THEN 0 - 1 ELSE 1]

NaN == [class |-> "nan", h |-> 0]

\* a < b on f64: every comparison with NaN is false
f64_lt(a, b) ==
    CASE a.class = "nan" \/ b.class = "nan" -> FALSE
      [] a.class = "inf" -> a.h < 0 /\ ~(b.class = "inf" /\ b.h < 0)
      [] b.class = "inf" -> b.h > 0
      [] OTHER -> a.h < b.h

\* f64::clamp: min when x < min, max when x > max, x otherwise, NaN included
f64_clamp(x, min, max) ==
    IF f64_lt(x, min) THEN min
    ELSE IF f64_lt(max, x) THEN max
    ELSE x

\* ProgressBar::new sets max_logs
max_logs == 10

\* ProgressBar::new
ProgressBar_new == [progress |-> F64(0), message |-> <<>>, logs |-> <<>>]

\* ProgressBar::set_progress
ProgressBar_set_progress(pb, progress) ==
    [pb EXCEPT !.progress = f64_clamp(progress, F64(0), F64(100))]

\* ProgressBar::set_message
ProgressBar_set_message(pb, message) == [pb EXCEPT !.message = message]

\* ProgressBar::add_log dropping the new entry when the ring is full
ProgressBar_add_log_keep_oldest(pb, log) ==
    IF Len(pb.logs) >= max_logs THEN pb
    ELSE [pb EXCEPT !.logs = Append(@, <<"[ts] ", log>>)]

\* ProgressBar::add_log: the entry is the text behind a time stamp
ProgressBar_add_log(pb, log) ==
    LET pushed == Append(pb.logs, <<"[ts] ", log>>)
    IN [pb EXCEPT !.logs = IF Len(pushed) > max_logs THEN Tail(pushed) ELSE pushed]

\* ProgressBar::reset
ProgressBar_reset(pb) ==
    [pb EXCEPT !.progress = F64(0), !.message = <<>>, !.logs = <<>>]

-----------------------------------------------------------------------------
(* Storage: src/core/storage.rs.  A path is a record: the directory that   *)
(* holds the entry ("transcripts", "reports", or "outside" for any other   *)
(* directory) and the file name.  An entry of the file system is a regular *)
(* file or a symbolic link to another path.                                *)

TRANSCRIPTS_DIR == "transcripts"

REPORTS_DIR == "reports"

TRANSCRIPT_PREFIX == <<"t","r","a","n","s","c","r","i","p","t","_">>

TRANSCRIPT_SUFFIX == <<".","t","x","t">>

REPORT_PREFIX == <<"r","e","p","o","r","t","_">>

REPORT_SUFFIX == <<".","m","d">>

StartsWith(s, pre) == Len(s) >= Len(pre) /\ SubSeq(s, 1, Len(pre)) = pre

EndsWith(s, suf) ==
    Len(s) >= Len(suf) /\ SubSeq(s, Len(s) - Len(suf) + 1, Len(s)) = suf

RegularFile == [kind |-> "file"]

SymLink(target) == [kind |-> "link", target |-> target]

\* StorageService::transcript_path: Ok(path) or Err
transcript_path(video_id) ==
    LET sanitized == sanitize_video_id(video_id)
    IN [ok |-> sanitized.ok,
        val |-> [dir |-> TRANSCRIPTS_DIR,
                 name |-> TRANSCRIPT_PREFIX \o sanitized.val \o TRANSCRIPT_SUFFIX]]

\* StorageService::report_path: Ok(path) or Err
report_path(video_id) ==
    LET sanitized == sanitize_video_id(video_id)
    IN [ok |-> sanitized.ok,
        val |-> [dir |-> REPORTS_DIR,
                 name |-> REPORT_PREFIX \o sanitized.val \o REPORT_SUFFIX]]

\* Path::canonicalize: the entry reached by following the links, None when
\* the path does not exist, a link dangles or the links form a cycle
RECURSIVE Resolve(_, _, _)
Resolve(f, path, fuel) ==
    IF path \notin DOMAIN f THEN None
    ELSE IF f[path].kind = "link"
         THEN (IF fuel = 0 THEN None ELSE Resolve(f, f[path].target, fuel - 1))
         ELSE Some(path)

canonicalize(f, path) == Resolve(f, path, Cardinality(DOMAIN f))

\* ensure_managed_path that accepts every path that resolves
ensure_managed_path_unchecked(f, path) == IsSome(canonicalize(f, path))

\* ensure_managed_path: TRUE for Ok(()), FALSE for Err
ensure_managed_path(f, path) ==
    LET canonical == canonicalize(f, path)
    IN IF ~IsSome(canonical) THEN FALSE
       ELSE Unwrap(canonical).dir = TRANSCRIPTS_DIR
            \/ Unwrap(canonical).dir = REPORTS_DIR

\* std::fs::remove_file: removes the entry itself, a link is not followed
remove_file(f, path) == [q \in DOMAIN f \ {path} |-> f[q]]

\* the recency order without a path
Without(rec, path) == FilterSeq(rec, Range(rec) \ {path})

\* the entry a write through path creates or modifies: the end of the chain
\* of links from path, which need not exist yet
RECURSIVE WriteTarget(_, _, _)
WriteTarget(f, path, fuel) ==
    IF path \in DOMAIN f /\ f[path].kind = "link" /\ fuel > 0
    THEN WriteTarget(f, f[path].target, fuel - 1)
    ELSE path

\* tokio::fs::write: the file system after the write
fs_write(f, path) ==
    LET t == WriteTarget(f, path, Cardinality(DOMAIN f))
    IN [q \in DOMAIN f \cup {t} |-> IF q = t THEN RegularFile ELSE f[q]]

\* the recency order after a write through path
touch(f, rec, path) ==
    LET t == WriteTarget(f, path, Cardinality(DOMAIN f))
    IN <<t>> \o Without(rec, t)

\* the paths StorageService::list_files keeps, by directory and name
Listed(f) ==
    {p \in DOMAIN f :
        \/ /\ p.dir = TRANSCRIPTS_DIR
           /\ StartsWith(p.name, TRANSCRIPT_PREFIX)
           /\ EndsWith(p.name, TRANSCRIPT_SUFFIX)
        \/ /\ p.dir = REPORTS_DIR
           /\ StartsWith(p.name, REPORT_PREFIX)
           /\ EndsWith(p.name, REPORT_SUFFIX)}

\* the FileEntry list_files builds for a path
FileEntry(path) ==
    [path |-> path,
     name |-> path.name,
     file_type |-> IF path.dir = TRANSCRIPTS_DIR THEN "Transcript" ELSE "Report"]

\* StorageService::list_files: the kept entries, newest first
list_files(f, rec) ==
    LET kept == FilterSeq(rec, Listed(f))
    IN [i \in 1..Len(kept) |-> FileEntry(kept[i])]

\* StorageService::delete_file: Ok with the entry removed, or Err
delete_file(f, rec, path) ==
    IF ~ensure_managed_path(f, path)
    THEN [ok |-> FALSE, fs |-> f, recency |-> rec]
    ELSE [ok |-> TRUE, fs |-> remove_file(f, path), recency |-> Without(rec, path)]

-----------------------------------------------------------------------------
(* The application: src/tui/app.rs.  A handler is an operator from a world  *)
(* to a world: the record of everything the main loop reads or writes, with *)
(* field outcome "ok", "err" (the handler returned Err) or "panic".         *)

Text(s) == <<s>>

DefaultLanguages == <<"e", "n", ",", "e", "s">>

\* the Viewer of an opened file: its title, scroll offset and line count
Viewer_new(title, lines) == [title |-> title, scroll |-> 0, lines |-> lines]

\* App::viewer_height is set by App::new and by nothing else
viewer_height == 0

\* Viewer::handle_key
Viewer_handle_key(v, key, area_height) ==
    LET page_size == IF SatSub(area_height, 2) = 0 THEN 1 ELSE SatSub(area_height, 2)
        bottom == SatSub(v.lines, page_size)
        up == [v EXCEPT !.scroll = IF v.scroll > 0 THEN v.scroll - 1 ELSE v.scroll]
        down == [v EXCEPT !.scroll = IF v.scroll < bottom THEN v.scroll + 1 ELSE v.scroll]
        page_up == [v EXCEPT !.scroll = SatSub(v.scroll, page_size)]
        page_down == [v EXCEPT !.scroll = Min(v.scroll + page_size, bottom)]
    IN CASE key.code = "Up" -> up
         [] key.code = "Down" -> down
         [] key.code = "PageUp" -> page_up
         [] key.code = "PageDown" -> page_down
         [] key.code = "Home" -> [v EXCEPT !.scroll = 0]
         [] key.code = "End" -> [v EXCEPT !.scroll = bottom]
         [] key.code = "Char" ->
              (CASE key.c = "k" -> up
                 [] key.c = "j" -> down
                 [] key.c = "b" -> page_up
                 [] key.c = " " -> page_down
                 [] key.c = "g" -> [v EXCEPT !.scroll = 0]
                 [] key.c = "G" -> [v EXCEPT !.scroll = bottom]
                 [] OTHER -> v)
         [] OTHER -> v

\* App::new, given the listing of the storage at that moment
App_new(files) ==
    [state |-> [tag |-> "Home"],
     should_quit |-> FALSE,
     selected_option |-> 0,
     url_input |-> InputField_new,
     languages_input |-> InputField_new,
     preserve_formatting |-> TRUE,
     generate_report |-> TRUE,
     input_focus |-> 0,
     file_list |-> FileList_new(files),
     search_input |-> InputField_new,
     filter |-> "All",
     content_viewer |-> None,
     progress_bar |-> ProgressBar_new]

\* the world the main loop works on
World ==
    [app |-> app, rx |-> processing_rx, jobs |-> jobs, fs |-> fs,
     recency |-> recency, applied |-> applied, outcome |-> "ok"]

\* App::refresh_file_list
refresh_file_list(w) ==
    [w EXCEPT !.app.file_list = FileList_update_items(@, list_files(w.fs, w.recency))]

\* the closure of App::apply_filter and App::apply_search_filter
matches_filter(flt, file) ==
    CASE flt = "All" -> TRUE
      [] flt = "Transcripts" -> file.file_type = "Transcript"
      [] flt = "Reports" -> file.file_type = "Report"

\* the entries of a list that satisfy a predicate given as a set of indices
SelectIdx(s, idx) ==
    LET RECURSIVE go(_)
        go(i) == IF i > Len(s) THEN <<>>
                 ELSE (IF i \in idx THEN <<s[i]>> ELSE <<>>) \o go(i + 1)
    IN go(1)

\* App::apply_filter
apply_filter(w) ==
    LET all_files == list_files(w.fs, w.recency)
        filtered == SelectIdx(all_files,
                        {i \in 1..Len(all_files) : matches_filter(w.app.filter, all_files[i])})
    IN [w EXCEPT !.app.file_list = FileList_update_items(@, filtered)]

UpperCase == <<"A","B","C","D","E","F","G","H","I","J","K","L","M",
               "N","O","P","Q","R","S","T","U","V","W","X","Y","Z">>

LowerCase == <<"a","b","c","d","e","f","g","h","i","j","k","l","m",
               "n","o","p","q","r","s","t","u","v","w","x","y","z">>

\* str::to_lowercase
to_lowercase(s) ==
    [i \in 1..Len(s) |->
        IF \E k \in 1..26 : UpperCase[k] = s[i]
        THEN LowerCase[CHOOSE k \in 1..26 : UpperCase[k] = s[i]]
        ELSE s[i]]

\* str::contains
Contains(s, pat) == pat = <<>> \/ Find(s, pat) # 0

\* App::apply_search_filter
apply_search_filter(w) ==
    LET search_term == to_lowercase(w.app.search_input.value)
        all_files == list_files(w.fs, w.recency)
        filtered == SelectIdx(all_files,
                        {i \in 1..Len(all_files) :
                            /\ matches_filter(w.app.filter, all_files[i])
                            /\ Contains(to_lowercase(all_files[i].name), search_term)})
    IN IF search_term = <<>> THEN apply_filter(w)
       ELSE [w EXCEPT !.app.file_list = FileList_update_items(@, filtered)]

\* std::fs::read_to_string succeeds on a path that resolves to a file
Readable(f, path) == IsSome(canonicalize(f, path))

\* App::open_file; lines is the number of display lines of the content
open_file(w, file, lines) ==
    IF ~Readable(w.fs, file.path) THEN [w EXCEPT !.outcome = "err"]
    ELSE [w EXCEPT !.app.content_viewer = Some(Viewer_new(file.path, lines)),
                   !.app.state = [tag |-> "Viewer", file_path |-> file.path]]

\* the loop of App::delete_selected_files over the files from position i on:
\* the first refused delete returns its error
RECURSIVE delete_each(_, _, _)
delete_each(w, files, i) ==
    IF i > Len(files) THEN w
    ELSE LET r == delete_file(w.fs, w.recency, files[i].path)
         IN IF ~r.ok THEN [w EXCEPT !.outcome = "err"]
            ELSE delete_each([w EXCEPT !.fs = r.fs, !.recency = r.recency], files, i + 1)

\* App::delete_selected_files deleting the highlighted entry
delete_selected_files_highlighted(w) ==
    LET done == delete_each(w, FileList_get_selected(w.app.file_list), 1)
    IN IF done.outcome = "err" THEN done ELSE refresh_file_list(done)

\* App::delete_selected_files
delete_selected_files(w) ==
    LET done == delete_each(w, FileList_get_selected_items(w.app.file_list), 1)
    IN IF done.outcome = "err" THEN done ELSE refresh_file_list(done)

-----------------------------------------------------------------------------
(* Messages and the background job: App::start_real_processing.  A message *)
(* is the prefix handle_tick dispatches on and the text behind it; job and *)
(* seq say which job sent it and as its how-manieth message: they are      *)
(* history, the program's strings do not carry them.                       *)

Msg(kind, val) == [kind |-> kind, val |-> val]

Stamp(msgs, j, from) ==
    [i \in 1..Len(msgs) |-> [kind |-> msgs[i].kind, val |-> msgs[i].val,
                             job |-> j, seq |-> from + i]]

\* UnboundedSender::send, several times in a row: the channel is a queue
Send(rx, msgs) == rx \o msgs

\* the task tokio::spawn creates, before it has run
Job_new(video_id, request) ==
    [video_id |-> video_id,
     languages |-> request.languages,
     preserve_formatting |-> request.preserve_formatting,
     generate_report |-> request.generate_report,
     pc |-> "spawned",
     sent |-> <<>>,
     stages |-> <<>>,
     requests |-> 0,
     failed |-> None]

\* start_real_processing spawning the task twice
start_real_processing_twice(w, video_id, request) ==
    [w EXCEPT !.jobs = Append(Append(@, Job_new(video_id, request)),
                              Job_new(video_id, request))]

\* App::start_real_processing: one task is spawned, nothing of it has run
start_real_processing(w, video_id, request) ==
    [w EXCEPT !.jobs = Append(@, Job_new(video_id, request))]

\* s.split(',') with each piece trimmed
RECURSIVE SplitTrim(_, _)
SplitTrim(s, sep) ==
    LET i == Find(s, sep)
    IN IF i = 0 THEN <<Trim(s)>>
       ELSE <<Trim(SubSeq(s, 1, i - 1))>> \o SplitTrim(SubSeq(s, i + 1, Len(s)), sep)

\* App::start_processing without the check of extract_video_id's result
start_processing_unvalidated(w) ==
    LET request == [video_url |-> w.app.url_input.value,
                    languages |-> SplitTrim(w.app.languages_input.value, <<",">>),
                    preserve_formatting |-> w.app.preserve_formatting,
                    generate_report |-> w.app.generate_report]
        video_id == Trim(request.video_url)
        started == [w EXCEPT
                      !.app.state = [tag |-> "Processing", video_id |-> video_id,
                                     progress |-> F64(0), status |-> Text("Starting..."),
                                     logs |-> <<>>],
                      !.app.progress_bar =
                          ProgressBar_set_message(ProgressBar_reset(@), Text("Starting..."))]
    IN IF ~InputField_is_valid(w.app.url_input) THEN w
       ELSE start_real_processing(started, video_id, request)

\* App::start_processing
start_processing(w) ==
    LET request == [video_url |-> w.app.url_input.value,
                    languages |-> SplitTrim(w.app.languages_input.value, <<",">>),
                    preserve_formatting |-> w.app.preserve_formatting,
                    generate_report |-> w.app.generate_report]
        extracted == extract_video_id(request.video_url)
        video_id == Unwrap(extracted)
        started == [w EXCEPT
                      !.app.state = [tag |-> "Processing", video_id |-> video_id,
                                     progress |-> F64(0), status |-> Text("Starting..."),
                                     logs |-> <<>>],
                      !.app.progress_bar =
                          ProgressBar_set_message(ProgressBar_reset(@), Text("Starting..."))]
    IN IF ~InputField_is_valid(w.app.url_input) THEN w
       ELSE IF IsSome(extracted)
            THEN start_real_processing(started, video_id, request)
            ELSE w

\* App::cycle_input_focus
cycle_input_focus(a) ==
    LET focus == (a.input_focus + 1) % 4
    IN [a EXCEPT !.input_focus = focus,
                 !.url_input.focused = (focus = 0),
                 !.languages_input.focused = (focus = 1)]

-----------------------------------------------------------------------------
(* Key handlers *)

\* App::handle_home_key
handle_home_key(w, key) ==
    CASE key.code = "Up" ->
           [w EXCEPT !.app.selected_option = IF @ > 0 THEN @ - 1 ELSE @]
      [] key.code = "Down" ->
           [w EXCEPT !.app.selected_option = IF @ < 3 THEN @ + 1 ELSE @]
      [] key.code = "Char" /\ key.c = "1" -> [w EXCEPT !.app.selected_option = 0]
      [] key.code = "Char" /\ key.c = "2" -> [w EXCEPT !.app.selected_option = 1]
      [] key.code = "Char" /\ key.c = "3" -> [w EXCEPT !.app.selected_option = 2]
      [] key.code = "Char" /\ key.c = "4" -> [w EXCEPT !.app.selected_option = 3]
      [] key.code = "Enter" ->
           (CASE w.app.selected_option = 0 ->
                   [w EXCEPT !.app.state = [tag |-> "NewTranscript"],
                             !.app.url_input =
                                 [InputField_clear(@) EXCEPT !.focused = TRUE],
                             !.app.languages_input.value = DefaultLanguages,
                             !.app.input_focus = 0]
              [] w.app.selected_option = 1 ->
                   [refresh_file_list(w) EXCEPT
                       !.app.state = [tag |-> "Browser", filter |-> "Transcripts",
                                      search |-> <<>>]]
              [] w.app.selected_option = 2 ->
                   [refresh_file_list(w) EXCEPT
                       !.app.state = [tag |-> "Browser", filter |-> "Reports",
                                      search |-> <<>>]]
              [] w.app.selected_option = 3 ->
                   [w EXCEPT !.app.state = [tag |-> "Settings"]]
              [] OTHER -> w)
      [] OTHER -> w

\* App::handle_new_transcript_key with Enter submitting from every control
handle_new_transcript_key_anyfocus(w, key) ==
    CASE key.code = "Esc" -> [w EXCEPT !.app.state = [tag |-> "Home"]]
      [] key.code = "Tab" -> [w EXCEPT !.app = cycle_input_focus(@)]
      [] key.code = "Enter" -> start_processing(w)
      [] OTHER -> w

\* App::handle_new_transcript_key
handle_new_transcript_key(w, key) ==
    CASE key.code = "Esc" -> [w EXCEPT !.app.state = [tag |-> "Home"]]
      [] key.code = "Tab" -> [w EXCEPT !.app = cycle_input_focus(@)]
      [] key.code = "Enter" ->
           IF w.app.input_focus < 2 THEN [w EXCEPT !.app = cycle_input_focus(@)]
           ELSE start_processing(w)
      [] key.code = "Char" /\ key.c = " " /\ w.app.input_focus = 2 ->
           [w EXCEPT !.app.preserve_formatting = ~@]
      [] key.code = "Char" /\ key.c = " " /\ w.app.input_focus = 3 ->
           [w EXCEPT !.app.generate_report = ~@]
      [] OTHER ->
           IF w.app.input_focus = 0
           THEN (IF InputField_panics(w.app.url_input, key)
                 THEN [w EXCEPT !.outcome = "panic"]
                 ELSE [w EXCEPT !.app.url_input = InputField_handle_key(@, key)])
           ELSE IF w.app.input_focus = 1
           THEN (IF InputField_panics(w.app.languages_input, key)
                 THEN [w EXCEPT !.outcome = "panic"]
                 ELSE [w EXCEPT !.app.languages_input = InputField_handle_key(@, key)])
           ELSE w

\* FileList::handle_key
FileList_handle_key(fl, key) ==
    CASE key.code = "Up" -> FileList_previous(fl)
      [] key.code = "Down" -> FileList_next(fl)
      [] key.code = "PageDown" -> FileList_page_down(fl)
      [] key.code = "PageUp" -> FileList_page_up(fl)
      [] key.code = "Home" -> FileList_go_home(fl)
      [] key.code = "End" -> FileList_go_end(fl)
      [] key.code = "Char" /\ key.c = " " -> FileList_toggle_selected(fl)
      [] OTHER -> fl

\* App::handle_browser_key; lines is the line count of the file Enter opens
handle_browser_key(w, key, lines) ==
    CASE key.code = "Esc" -> [w EXCEPT !.app.state = [tag |-> "Home"]]
      [] key.code = "Enter" ->
           IF IsSome(FileList_get_selected(w.app.file_list))
           THEN open_file(w, Unwrap(FileList_get_selected(w.app.file_list)), lines)
           ELSE w
      [] key.code = "Delete" -> delete_selected_files(w)
      [] key.code = "Char" /\ key.c = "/" -> [w EXCEPT !.app.search_input.focused = TRUE]
      [] key.code = "Char" /\ key.c = "1" ->
           apply_filter([w EXCEPT !.app.filter = "All"])
      [] key.code = "Char" /\ key.c = "2" ->
           apply_filter([w EXCEPT !.app.filter = "Transcripts"])
      [] key.code = "Char" /\ key.c = "3" ->
           apply_filter([w EXCEPT !.app.filter = "Reports"])
      [] OTHER ->
           IF w.app.search_input.focused
           THEN (IF InputField_panics(w.app.search_input, key)
                 THEN [w EXCEPT !.outcome = "panic"]
                 ELSE apply_search_filter(
                        [w EXCEPT !.app.search_input = InputField_handle_key(@, key)]))
           ELSE [w EXCEPT !.app.file_list = FileList_handle_key(@, key)]

\* App::handle_viewer_key
handle_viewer_key(w, key) ==
    IF key.code = "Esc"
    THEN [w EXCEPT !.app.state = [tag |-> "Browser", filter |-> w.app.filter,
                                  search |-> <<>>]]
    ELSE IF IsSome(w.app.content_viewer)
         THEN [w EXCEPT !.app.content_viewer =
                   Some(Viewer_handle_key(Unwrap(@), key, viewer_height))]
         ELSE w

\* App::handle_processing_key leaving Processing on every key
handle_processing_key_anykey(w, key) ==
    [w EXCEPT !.app.state = [tag |-> "NewTranscript"],
              !.app.progress_bar = ProgressBar_reset(@)]

\* App::handle_processing_key
handle_processing_key(w, key) ==
    IF key.code = "Esc"
    THEN [w EXCEPT !.app.state = [tag |-> "NewTranscript"],
                   !.app.progress_bar = ProgressBar_reset(@)]
    ELSE w

\* App::handle_settings_key
handle_settings_key(w, key) ==
    IF key.code = "Esc" THEN [w EXCEPT !.app.state = [tag |-> "Home"]] ELSE w

\* App::handle_key
handle_key(w, key, lines) ==
    CASE w.app.state.tag = "Home" -> handle_home_key(w, key)
      [] w.app.state.tag = "NewTranscript" -> handle_new_transcript_key(w, key)
      [] w.app.state.tag = "Browser" -> handle_browser_key(w, key, lines)
      [] w.app.state.tag = "Viewer" -> handle_viewer_key(w, key)
      [] w.app.state.tag = "Processing" -> handle_processing_key(w, key)
      [] w.app.state.tag = "Settings" -> handle_settings_key(w, key)

-----------------------------------------------------------------------------
(* Bounds and inputs of the application's specification *)

\* the most jobs one run spawns
MaxJobs == 2

\* the most jobs a run that visits every screen spawns
MaxAppJobs == 1

\* the longest text typed into the identifier field
MaxUrlLen == 1

\* how many characters may be added to the default languages text
MaxLangExtra == 0

\* the longest text typed into the search field
MaxSearchLen == 1

\* the most display lines an opened file has
MaxLines == 0

\* the results of a collaborator: a record with field ok, an Err carries
\* the error text
Ok == [ok |-> TRUE]

Err(e) == [ok |-> FALSE, err |-> e]

\* the errors a collaborator returns
Errors == {"network error"}

Results == {Ok} \cup {Err(e) : e \in Errors}

\* the keys read from the terminal
Keys ==
    {Key("Esc"), Key("Enter"), Key("Down"), CharKey("a"), CharKey("q")}

\* the height of the list area of the Browser screen
AreaHeight == MaxHeight

\* the line counts the file may have that a key opens: only Enter on the
\* Browser screen opens one
OpenedLines(a, key) ==
    IF a.state.tag = "Browser" /\ key.code = "Enter" THEN 0..MaxLines ELSE {0}

\* a text or list grows only while it is shorter than max
Grows(new, old, max) == Len(new) > Len(old) => Len(old) < max

\* a job is spawned only while fewer than MaxJobs were, and a text is typed
\* into only while it is shorter than its bound
WithinBounds(w) ==
    /\ Grows(w.jobs, jobs, MaxJobs)
    /\ Grows(w.app.url_input.value, app.url_input.value, MaxUrlLen)
    /\ Grows(w.app.languages_input.value, app.languages_input.value,
             Len(DefaultLanguages) + MaxLangExtra)
    /\ Grows(w.app.search_input.value, app.search_input.value, MaxSearchLen)

-----------------------------------------------------------------------------
(* The tick and the event loop *)

Reverse(s) == [i \in 1..Len(s) |-> s[Len(s) + 1 - i]]

\* the try_recv loop of handle_tick taking the newest message first
Drain_newest_first(rx) == Reverse(rx)

\* the try_recv loop of App::handle_tick: every message of the channel, in
\* the order it was sent
Drain(rx) == rx

Digits == <<"0","1","2","3","4","5","6","7","8","9">>

IsDigit(c) == \E d \in 1..10 : Digits[d] = c

DigitValue(c) == (CHOOSE d \in 1..10 : Digits[d] = c) - 1

\* the number a string of digits writes
RECURSIVE ParseNat(_)
ParseNat(s) ==
    IF s = <<>> THEN 0
    ELSE 10 * ParseNat(SubSeq(s, 1, Len(s) - 1)) + DigitValue(s[Len(s)])

\* the text behind a sign, and whether the sign is a minus
Unsigned(text) ==
    IF text # <<>> /\ Head(text) \in {"-", "+"} THEN Tail(text) ELSE text

IsNegative(text) == text # <<>> /\ Head(text) = "-"

\* the position of the first element of s from position i on that is in
\* chars, 0 when there is none
RECURSIVE FirstFrom(_, _, _)
FirstFrom(s, chars, i) ==
    IF i > Len(s) THEN 0
    ELSE IF s[i] \in chars THEN i
    ELSE FirstFrom(s, chars, i + 1)

AllDigits(s) == \A i \in 1..Len(s) : IsDigit(s[i])

\* ten to the power n times d, rounded towards zero when n is negative
Scaled(d, n) == IF n >= 0 THEN d * 10 ^ n ELSE d \div 10 ^ (0 - n)

\* the value of a signed numeral
SignedValue(s) ==
    IF IsNegative(s) THEN 0 - ParseNat(Unsigned(s)) ELSE ParseNat(Unsigned(s))

\* the decimal of the digits whole.frac with the exponent, in hundredths;
\* None when a part is not made of digits or no digit is there
parse_parts(whole, frac, exponent, has_exponent, negative) ==
    IF /\ whole \o frac # <<>>
       /\ AllDigits(whole)
       /\ AllDigits(frac)
       /\ has_exponent => (Unsigned(exponent) # <<>> /\ AllDigits(Unsigned(exponent)))
    THEN Some(F64((IF negative THEN 0 - 1 ELSE 1)
                  * Scaled(ParseNat(whole \o frac),
                           SignedValue(exponent) + 2 - Len(frac))))
    ELSE None

\* the mantissa is split at its point, at position dot when dot is not 0
parse_point(mantissa, dot, exponent, has_exponent, negative) ==
    parse_parts(IF dot = 0 THEN mantissa ELSE SubSeq(mantissa, 1, dot - 1),
                IF dot = 0 THEN <<>> ELSE SubSeq(mantissa, dot + 1, Len(mantissa)),
                exponent, has_exponent, negative)

parse_decimal(mantissa, exponent, has_exponent, negative) ==
    parse_point(mantissa, FirstFrom(mantissa, {"."}, 1), exponent, has_exponent,
                negative)

\* the literal is split at its e or E, at position epos when epos is not 0
parse_split(body, epos, negative) ==
    parse_decimal(IF epos = 0 THEN body ELSE SubSeq(body, 1, epos - 1),
                  IF epos = 0 THEN <<>> ELSE SubSeq(body, epos + 1, Len(body)),
                  epos # 0, negative)

\* a literal that begins with n or i is nan, inf or infinity, in any case
parse_special(lower, negative) ==
    IF lower = <<"n", "a", "n">> THEN Some(NaN)
    ELSE IF lower \in {<<"i", "n", "f">>, <<"i", "n", "f", "i", "n", "i", "t", "y">>}
         THEN Some(Infinity(negative))
    ELSE None

parse_unsigned(body, negative) ==
    IF body # <<>> /\ Head(body) \in {"n", "N", "i", "I"}
    THEN parse_special(to_lowercase(body), negative)
    ELSE parse_split(body, FirstFrom(body, {"e", "E"}, 1), negative)

\* str::parse::<f64>: a sign, then nan, inf or infinity in any case, or a
\* decimal numeral digits[.digits] with at least one digit and an optional
\* exponent; Some(value, a finite one in hundredths with further decimals
\* dropped), and None on any other text
parse_f64(text) == parse_unsigned(Unsigned(text), IsNegative(text))

\* if let Ok(progress) = progress_str.parse::<f64>() { set_progress(progress) }
apply_progress(w, parsed) ==
    IF IsSome(parsed)
    THEN [w EXCEPT !.app.progress_bar = ProgressBar_set_progress(@, Unwrap(parsed))]
    ELSE w

\* one round of the for loop of App::handle_tick
apply_message(w, message) ==
    CASE message.kind = "PROGRESS" -> apply_progress(w, parse_f64(message.val))
      [] message.kind = "STATUS" ->
           [w EXCEPT !.app.progress_bar = ProgressBar_set_message(@, message.val)]
      [] message.kind = "LOG" ->
           [w EXCEPT !.app.progress_bar = ProgressBar_add_log(@, message.val)]
      [] message.kind = "COMPLETE" ->
           [refresh_file_list(w) EXCEPT
               !.app.state = [tag |-> "Home"],
               !.app.progress_bar = ProgressBar_reset(@)]
      [] OTHER -> w

RECURSIVE apply_messages(_, _)
apply_messages(w, messages) ==
    IF messages = <<>> THEN w
    ELSE apply_messages(apply_message(w, Head(messages)), Tail(messages))

\* App::handle_tick
handle_tick(w) ==
    LET messages == Drain(w.rx)
    IN apply_messages([w EXCEPT !.rx = <<>>, !.applied = @ \o messages], messages)

\* EventHandler::next_event without the quit keys
next_event_without_quit(key) == [ev |-> "Key", key |-> key]

\* EventHandler::next_event: the event for a key read from the terminal
next_event(key) ==
    IF key.code = "Char" /\ key.c = "q" THEN [ev |-> "Quit"]
    ELSE IF key.code = "Ctrl-c" THEN [ev |-> "Quit"]
    ELSE [ev |-> "Key", key |-> key]

\* App::handle_event
handle_event(w, event, lines) ==
    CASE event.ev = "Quit" -> [w EXCEPT !.app.should_quit = TRUE]
      [] event.ev = "Key" -> handle_key(w, event.key, lines)
      [] event.ev = "Tick" -> handle_tick(w)

\* ui::draw: the Browser screen renders the file list into its area
draw(w, area_height) ==
    IF w.app.state.tag = "Browser"
    THEN [w EXCEPT !.app.file_list = FileList_render(@, area_height)]
    ELSE w

\* one round of the loop of run_tui: draw, handle the event, leave the loop
\* on an error or when should_quit is set
Iterate(event, area_height, lines) ==
    LET w == handle_event(draw(World, area_height), event, lines)
    IN /\ WithinBounds(w)
       /\ app' = w.app
       /\ processing_rx' = w.rx
       /\ jobs' = w.jobs
       /\ fs' = w.fs
       /\ recency' = w.recency
       /\ applied' = w.applied
       /\ running' = IF w.outcome = "panic" THEN "panic"
                     ELSE IF w.outcome = "err" THEN "error"
                     ELSE IF w.app.should_quit THEN "quit"
                     ELSE "running"
       /\ UNCHANGED <<del, env>>

-----------------------------------------------------------------------------
(* Report generation: src/core/report.rs.  The report service is outside   *)
(* the program; response is what it answers to a request.                  *)

\* str::to_ascii_lowercase
to_ascii_lowercase(s) == to_lowercase(s)

\* the values of the variable that permit report generation
OptInValues == {<<"1">>, <<"t", "r", "u", "e">>, <<"y", "e", "s">>}

\* the error of enforce_openai_opt_in
OptInRequired == "Report generation requires explicit opt-in."

\* enforce_openai_opt_in permitting whatever the environment holds
enforce_openai_opt_in_unchecked(var) == Ok

\* enforce_openai_opt_in: var is env::var(OPENAI_OPT_IN_ENV), None when the
\* variable is not set
enforce_openai_opt_in(var) ==
    IF IsSome(var) /\ to_ascii_lowercase(Trim(Unwrap(var))) \in OptInValues
    THEN Ok
    ELSE Err(OptInRequired)

\* the requests generate_report_text sends to the report service
requests_sent(var) == IF enforce_openai_opt_in(var).ok THEN 1 ELSE 0

\* ReportService::generate_report_text
generate_report_text(var, response) ==
    IF enforce_openai_opt_in(var).ok THEN response ELSE enforce_openai_opt_in(var)

-----------------------------------------------------------------------------
(* The steps of a job: each runs the task up to its next call of a         *)
(* collaborator or of the storage service, and sends what the task sends   *)
(* there as one batch.                                                     *)

\* what the task sends before it awaits fetch_transcript
SentAtStart ==
    <<Msg("STATUS", Text("Starting processing...")),
      Msg("PROGRESS", <<"0", ".", "1">>),
      Msg("LOG", Text("Extracting video ID...")),
      Msg("STATUS", Text("Downloading transcript...")),
      Msg("PROGRESS", <<"0", ".", "2", "5">>),
      Msg("LOG", Text("Fetching transcript..."))>>

\* a task that ends without a word when fetch_transcript fails
SentAfterFetch_silent(r) ==
    IF r.ok
    THEN <<Msg("PROGRESS", <<"0", ".", "5">>),
           Msg("LOG", Text("Successfully fetched transcript!")),
           Msg("LOG", Text("Saving transcript to file..."))>>
    ELSE <<>>

\* what it sends once fetch_transcript has returned
SentAfterFetch(r) ==
    IF r.ok
    THEN <<Msg("PROGRESS", <<"0", ".", "5">>),
           Msg("LOG", Text("Successfully fetched transcript!")),
           Msg("LOG", Text("Saving transcript to file..."))>>
    ELSE <<Msg("LOG", <<"Error fetching transcript: ", r.err>>),
           Msg("STATUS", Text("Error downloading transcript")),
           Msg("COMPLETE", <<>>)>>

\* a task that sends COMPLETE as soon as the transcript is saved, report or not
SentAfterSaveTranscript_early(r, with_report) ==
    IF r.ok
    THEN <<Msg("PROGRESS", <<"0", ".", "6">>),
           Msg("LOG", Text("Transcript saved successfully!")),
           Msg("PROGRESS", <<"1", ".", "0">>),
           Msg("STATUS", Text("Completed")),
           Msg("COMPLETE", <<>>)>>
    ELSE <<Msg("LOG", <<"Error saving transcript: ", r.err>>),
           Msg("STATUS", Text("Error saving transcript")),
           Msg("COMPLETE", <<>>)>>

\* what it sends once save_transcript has returned
SentAfterSaveTranscript(r, with_report) ==
    IF r.ok
    THEN <<Msg("PROGRESS", <<"0", ".", "6">>),
           Msg("LOG", Text("Transcript saved successfully!"))>>
         \o (IF with_report
             THEN <<Msg("STATUS", Text("Generating report...")),
                    Msg("PROGRESS", <<"0", ".", "7">>),
                    Msg("LOG", Text("Generating report..."))>>
             ELSE <<Msg("PROGRESS", <<"1", ".", "0">>),
                    Msg("STATUS", Text("Completed")),
                    Msg("COMPLETE", <<>>)>>)
    ELSE <<Msg("LOG", <<"Error saving transcript: ", r.err>>),
           Msg("STATUS", Text("Error saving transcript")),
           Msg("COMPLETE", <<>>)>>

\* what it sends once generate_report has returned
SentAfterGenerate(r) ==
    IF r.ok
    THEN <<Msg("PROGRESS", <<"0", ".", "9">>),
           Msg("LOG", Text("Report generated successfully!")),
           Msg("LOG", Text("Saving report to file..."))>>
    ELSE <<Msg("LOG", <<"Error generating report: ", r.err>>),
           Msg("STATUS", Text("Error generating report")),
           Msg("COMPLETE", <<>>)>>

\* what it sends once save_report has returned
SentAfterSaveReport(r) ==
    IF r.ok
    THEN <<Msg("PROGRESS", <<"1", ".", "0">>),
           Msg("LOG", Text("Report saved successfully!")),
           Msg("STATUS", Text("Completed")),
           Msg("COMPLETE", <<>>)>>
    ELSE <<Msg("LOG", <<"Error saving report: ", r.err>>),
           Msg("STATUS", Text("Error saving report")),
           Msg("COMPLETE", <<>>)>>

\* a step of job j: it sends msgs, moves to pc, and has run stage with result
\* r; requests is the number of requests it has sent to the report service
JobStepWith(j, msgs, pc, stage, r, requests) ==
    /\ processing_rx' = Send(processing_rx, Stamp(msgs, j, Len(jobs[j].sent)))
    /\ jobs' = [jobs EXCEPT ![j].pc = pc,
                            ![j].sent = @ \o Stamp(msgs, j, Len(jobs[j].sent)),
                            ![j].stages = Append(@, stage),
                            ![j].requests = requests,
                            ![j].failed = IF r.ok \/ IsSome(@) THEN @
                                          ELSE Some([stage |-> stage, err |-> r.err])]

\* a step of job j that sends no request to the report service
JobStep(j, msgs, pc, stage, r) == JobStepWith(j, msgs, pc, stage, r, jobs[j].requests)

\* the task starts: lines 391-405, up to the await of fetch_transcript
JobStart(j) ==
    /\ running = "running"
    /\ jobs[j].pc = "spawned"
    /\ JobStep(j, SentAtStart, "fetch", "start", Ok)
    /\ UNCHANGED <<app, running, fs, recency, applied, del, env>>

\* fetch_transcript returns: lines 407-413 or 473-477
JobFetched(j, r) ==
    /\ running = "running"
    /\ jobs[j].pc = "fetch"
    /\ JobStep(j, SentAfterFetch(r), IF r.ok THEN "save_transcript" ELSE "done",
               "fetch", r)
    /\ UNCHANGED <<app, running, fs, recency, applied, del, env>>

\* save_transcript returns: lines 414-424, 460-464 or 466-470
JobTranscriptSaved(j, r) ==
    /\ running = "running"
    /\ jobs[j].pc = "save_transcript"
    /\ JobStep(j, SentAfterSaveTranscript(r, jobs[j].generate_report),
               IF r.ok /\ jobs[j].generate_report THEN "generate" ELSE "done",
               "save_transcript", r)
    /\ fs' = IF r.ok THEN fs_write(fs, transcript_path(jobs[j].video_id).val) ELSE fs
    /\ recency' = IF r.ok THEN touch(fs, recency, transcript_path(jobs[j].video_id).val)
                  ELSE recency
    /\ UNCHANGED <<app, running, applied, del, env>>

\* what generate_report returns to job j when the report service answers r
Generated(r) == generate_report_text(env, r)

\* generate_report returns: lines 425-434 or 452-458; r is the answer of the
\* report service to the request, if one is sent
JobGenerated(j, r) ==
    /\ running = "running"
    /\ jobs[j].pc = "generate"
    /\ JobStepWith(j, SentAfterGenerate(Generated(r)),
                   IF Generated(r).ok THEN "save_report" ELSE "done",
                   "generate", Generated(r),
                   jobs[j].requests + requests_sent(env))
    /\ UNCHANGED <<app, running, fs, recency, applied, del, env>>

\* save_report returns: lines 435-449
JobReportSaved(j, r) ==
    /\ running = "running"
    /\ jobs[j].pc = "save_report"
    /\ JobStep(j, SentAfterSaveReport(r), "done", "save_report", r)
    /\ fs' = IF r.ok THEN fs_write(fs, report_path(jobs[j].video_id).val) ELSE fs
    /\ recency' = IF r.ok THEN touch(fs, recency, report_path(jobs[j].video_id).val)
                  ELSE recency
    /\ UNCHANGED <<app, running, applied, del, env>>

-----------------------------------------------------------------------------
(* The specification of the application *)

\* the transcript of an identifier `a' saved by an earlier run
OldTranscript == transcript_path(<<"a">>).val

\* the storage the application finds when it starts
InitialStorages == {<<OldTranscript>>}

Init ==
    /\ \E rec \in InitialStorages :
          /\ recency = rec
          /\ fs = [p \in Range(rec) |-> RegularFile]
          /\ app = App_new(list_files([p \in Range(rec) |-> RegularFile], rec))
    /\ running = "running"
    /\ processing_rx = <<>>
    /\ jobs = <<>>
    /\ applied = <<>>
    /\ del = [pc |-> "idle"]
    /\ env = Some(<<"1">>)

\* a key is read and handled
KeyPress ==
    /\ running = "running"
    /\ \E key \in Keys : \E lines \in OpenedLines(app, key) :
          Iterate(next_event(key), AreaHeight, lines)
    /\ Grows(jobs', jobs, MaxAppJobs)

\* no key arrives within the poll: a tick
Tick ==
    /\ running = "running"
    /\ Iterate([ev |-> "Tick"], AreaHeight, 0)

Next ==
    \/ KeyPress
    \/ Tick
    \/ \E j \in 1..Len(jobs) : JobStart(j)
    \/ \E j \in 1..Len(jobs), r \in Results : JobFetched(j, r)
    \/ \E j \in 1..Len(jobs), r \in Results : JobTranscriptSaved(j, r)
    \/ \E j \in 1..Len(jobs), r \in Results : JobGenerated(j, r)
    \/ \E j \in 1..Len(jobs), r \in Results : JobReportSaved(j, r)

Spec == Init /\ [][Next]_vars


-----------------------------------------------------------------------------
(* Properties of the application: screens, ticks and jobs *)

\* a tick of the main loop
TickStep == running = "running" /\ Iterate([ev |-> "Tick"], AreaHeight, 0)

\* the main loop handles the key `key'
KeyStep(key) ==
    /\ running = "running"
    /\ \E lines \in OpenedLines(app, key) : Iterate(next_event(key), AreaHeight, lines)

\* the channel holds a terminal message
TerminalWaiting == \E i \in 1..Len(processing_rx) : processing_rx[i].kind = "COMPLETE"

\* this step is a tick that drains a terminal message
DrainsTerminal == TerminalWaiting /\ TickStep

\* the job was abandoned: it was spawned, the screen is no longer Processing
\* and its terminal message has not been drained yet
Abandoned ==
    /\ jobs # <<>>
    /\ app.state.tag # "Processing"
    /\ \A i \in 1..Len(applied) : applied[i].kind # "COMPLETE"

\* C1: once Esc has left Processing, the tick that drains the abandoned job's
\* terminal message leaves the screen that is active at that moment as it is
C1_AbandonedTerminalIgnored ==
    [][(Abandoned /\ DrainsTerminal) => app'.state = app.state]_vars

\* the last message job j sent
LastSent(j) == jobs[j].sent[Len(jobs[j].sent)]

\* the error text is part of the text of the message
CarriesError(message, err) == \E k \in 1..Len(message.val) : message.val[k] = err

\* C5: a job whose stage failed has sent, as its last message, a Failed
\* message that carries the error text and is not Complete, and has run no
\* stage after the failed one
C5_FailureSendsFailed ==
    \A j \in 1..Len(jobs) :
        IsSome(jobs[j].failed) =>
            /\ LastSent(j).kind = "FAILED"
            /\ CarriesError(LastSent(j), Unwrap(jobs[j].failed).err)
            /\ jobs[j].stages[Len(jobs[j].stages)] = Unwrap(jobs[j].failed).stage
            /\ jobs[j].pc = "done"

\* the log ring holds the entry of the error of job j
ErrorLogged(pb, j) ==
    \E k \in 1..Len(pb.logs) :
        \E n \in 1..Len(pb.logs[k][2]) : pb.logs[k][2][n] = Unwrap(jobs[j].failed).err

\* C6: when the terminal message of a failed job is drained, the screen
\* becomes Home or the form and the log ring still holds the error's entry
C6_FailureKeepsErrorLog ==
    [][(DrainsTerminal /\ \E j \in 1..Len(jobs) : IsSome(jobs[j].failed)) =>
          /\ app'.state.tag \in {"Home", "NewTranscript"}
          /\ \A j \in 1..Len(jobs) :
                IsSome(jobs[j].failed) => ErrorLogged(app'.progress_bar, j)]_vars

\* the step leaves Processing or clears the progress and log history
LeavesProcessing ==
    /\ app.state.tag = "Processing"
    /\ \/ app'.state.tag # "Processing"
       \/ (app.progress_bar.logs # <<>> /\ app'.progress_bar.logs = <<>>)

\* C7 as stated: the screen leaves Processing, or the history is cleared,
\* only by the tick that drains a terminal message
C7_LeavesOnlyOnTerminal == [][LeavesProcessing => DrainsTerminal]_vars

\* C7: the screen leaves Processing, and the history is cleared, only by the
\* tick that drains the terminal message or by the key Esc; any other key
\* received in Processing leaves the screen and the progress bar as they are
C7_LeavesOnlyOnTerminalOrEsc ==
    [][/\ LeavesProcessing => (DrainsTerminal \/ KeyStep(Key("Esc")))
       /\ \A key \in Keys \ {Key("Esc")} :
             (app.state.tag = "Processing" /\ KeyStep(key)) =>
                 /\ app'.state = app.state
                 /\ app'.progress_bar = app.progress_bar]_vars

\* Esc was pressed in Processing while the job was running: the form is
\* shown, the job has not finished, the history is cleared
C7_Witness ==
    /\ app.state.tag = "NewTranscript"
    /\ jobs # <<>>
    /\ jobs[1].pc \notin {"spawned", "done"}
    /\ app.progress_bar.logs = <<>>

\* the step takes the screen from the form to Processing
Submits == app.state.tag = "NewTranscript" /\ app'.state.tag = "Processing"

\* C8: a step that takes the form to Processing spawns exactly one job, no
\* other step spawns or ends one, and the spawned job has run no stage and
\* sent no message when the key handler has returned
C8_OneJobPerSubmit ==
    [][/\ Len(jobs') = Len(jobs) + (IF Submits THEN 1 ELSE 0)
       /\ Submits =>
             /\ jobs'[Len(jobs')].pc = "spawned"
             /\ jobs'[Len(jobs')].sent = <<>>
             /\ jobs'[Len(jobs')].stages = <<>>
             /\ processing_rx' = processing_rx
             /\ SubSeq(jobs', 1, Len(jobs)) = jobs]_vars

\* the form has been submitted: Processing is shown and the one job that was
\* spawned has not run yet
C8_Witness ==
    /\ app.state.tag = "Processing"
    /\ Len(jobs) = 1
    /\ jobs[1].pc = "spawned"


-----------------------------------------------------------------------------
(* The specification of the FileList component: every operation of         *)
(* src/tui/components/list.rs, on every list of at most MaxItems entries.  *)

\* identifiers of stored transcripts
Ids == <<"a", "b", "c", "d", "e">>

\* the entries a list is built from
Entries == {FileEntry(transcript_path(<<Ids[k]>>).val) : k \in 1..MaxItems}

\* the item lists given to FileList::new and FileList::update_items
ItemLists == DistinctSeqs(Entries, MaxItems)

\* the state outside the application struct, as run_tui finds it
Idle ==
    /\ running = "running"
    /\ processing_rx = <<>>
    /\ jobs = <<>>
    /\ applied = <<>>
    /\ del = [pc |-> "idle"]
    /\ env = Some(<<"1">>)

InitList ==
    /\ \E items \in ItemLists : app = App_new(items)
    /\ fs = <<>>
    /\ recency = <<>>
    /\ Idle

\* the list becomes fl
ListStep(fl) ==
    /\ app' = [app EXCEPT !.file_list = fl]
    /\ UNCHANGED <<running, processing_rx, jobs, fs, recency, applied, del, env>>

ListNext == ListStep(FileList_next(app.file_list))

ListPrevious == ListStep(FileList_previous(app.file_list))

ListPageDown == ListStep(FileList_page_down(app.file_list))

ListPageUp == ListStep(FileList_page_up(app.file_list))

ListGoHome == ListStep(FileList_go_home(app.file_list))

ListGoEnd == ListStep(FileList_go_end(app.file_list))

ListScrollUp == ListStep(FileList_scroll_up(app.file_list))

ListScrollDown == ListStep(FileList_scroll_down(app.file_list))

ListToggleSelected == ListStep(FileList_toggle_selected(app.file_list))

ListRender == \E h \in 0..MaxHeight : ListStep(FileList_render(app.file_list, h))

ListUpdateItems ==
    \E items \in ItemLists : ListStep(FileList_update_items(app.file_list, items))

NextList ==
    \/ ListNext
    \/ ListPrevious
    \/ ListPageDown
    \/ ListPageUp
    \/ ListGoHome
    \/ ListGoEnd
    \/ ListScrollUp
    \/ ListScrollDown
    \/ ListToggleSelected
    \/ ListRender
    \/ ListUpdateItems

SpecList == InitList /\ [][NextList]_vars

\* the selection is an entry of the list and lies in the window of
\* `viewport' rows that starts at the offset, and the window does not reach
\* past the end of a list that fills it
InWindow(fl, viewport) ==
    fl.items # <<>> =>
        /\ IsSome(fl.selected)
        /\ Unwrap(fl.selected) < Len(fl.items)
        /\ fl.offset <= Unwrap(fl.selected)
        /\ Unwrap(fl.selected) < fl.offset + viewport
        /\ fl.offset + viewport <= Max(Len(fl.items), viewport)

-----------------------------------------------------------------------------
(* The specification of a submission: the form holds a text that was typed *)
(* into the identifier field, and is submitted, left, or toggled.          *)

\* a text of n characters `a'
Repeat(n) == [i \in 1..n |-> "a"]

\* the texts the identifier field holds when the form is submitted
SubmitUrls ==
    {<<>>,
     <<" ", " ">>,
     <<".", ".", "/", "e", "t", "c", "/", "p", "a", "s", "s", "w", "d">>,
     <<"a", "b", "c", "_", "D", "E", "F", "-", "1", "2", "3">>,
     <<" ", "a", "b", " ">>,
     <<"\t", "a", "b", "\n">>,
     <<"a", " ", "b">>,
     <<"v", "=", " ", "a", "b", " ", "&", "x">>,
     Repeat(MAX_VIDEO_ID_LEN),
     Repeat(MAX_VIDEO_ID_LEN + 1),
     <<"y", "o", "u", "t", "u", ".", "b", "e", "/", "a", "b", "c", "?", "t", "=", "1">>,
     <<"w", "a", "t", "c", "h", "?", "v", "=", "a", "b", "&", "t", "=", "1">>,
     <<"v", "=">>,
     <<"v", "=", ".", ".", "/", "x">>}

\* the form after Enter on the first option of Home, with the text typed
\* into the identifier field
FormWith(a, url) ==
    LET home == [app |-> a, rx |-> <<>>, jobs |-> <<>>, fs |-> <<>>,
                 recency |-> <<>>, applied |-> <<>>, outcome |-> "ok"]
        form == handle_home_key(home, Key("Enter")).app
    IN [form EXCEPT !.url_input.value = url, !.url_input.cursor = Len(url)]

InitSubmit ==
    /\ \E url \in SubmitUrls : app = FormWith(App_new(<<>>), url)
    /\ fs = <<>>
    /\ recency = <<>>
    /\ Idle

\* the keys read while the form is shown
SubmitKeys == {Key("Enter"), Key("Tab"), CharKey(" ")}

SubmitKey ==
    /\ running = "running"
    /\ \E key \in SubmitKeys : Iterate(next_event(key), AreaHeight, 0)

NextSubmit ==
    \/ SubmitKey
    \/ Tick
    \/ \E j \in 1..Len(jobs) : JobStart(j)
    \/ \E j \in 1..Len(jobs), r \in Results : JobFetched(j, r)
    \/ \E j \in 1..Len(jobs), r \in Results : JobTranscriptSaved(j, r)
    \/ \E j \in 1..Len(jobs), r \in Results : JobGenerated(j, r)
    \/ \E j \in 1..Len(jobs), r \in Results : JobReportSaved(j, r)

SpecSubmit == InitSubmit /\ [][NextSubmit]_vars

\* the text passes normalisation: extract_video_id finds an identifier in it
Normalizes(text) == IsSome(extract_video_id(text))

\* the identifier is one that normalisation yields: it is not empty, at most
\* MAX_VIDEO_ID_LEN long, and made of letters, digits, `-' and `_'
Normalized(id) ==
    /\ id # <<>>
    /\ Len(id) <= MAX_VIDEO_ID_LEN
    /\ \A i \in 1..Len(id) : id[i] \in AsciiAlphanumeric \cup {"-", "_"}

\* C4: while the form holds a text that fails normalisation no step spawns a
\* job or shows Processing, Enter on the form leaves the form shown, and every
\* job that was spawned carries an identifier that passes normalisation
C4_InvalidIdentifierSpawnsNothing ==
    /\ [](\A j \in 1..Len(jobs) : Normalized(jobs[j].video_id))
    /\ [][(app.state.tag = "NewTranscript" /\ ~Normalizes(app.url_input.value)) =>
            /\ jobs' = jobs
            /\ app'.state.tag # "Processing"
            /\ KeyStep(Key("Enter")) => app'.state.tag = "NewTranscript"]_vars

\* the form holds "../etc/passwd", the focus is on the field from which Enter
\* submits, and no job was spawned
C4_Witness ==
    /\ app.state.tag = "NewTranscript"
    /\ app.input_focus = 2
    /\ app.url_input.value =
          <<".", ".", "/", "e", "t", "c", "/", "p", "a", "s", "s", "w", "d">>
    /\ jobs = <<>>


-----------------------------------------------------------------------------
(* The specification of the storage service: delete_file as its two file   *)
(* system calls, the check of ensure_managed_path and std::fs::remove_file,*)
(* with the writes of save_transcript and save_report of the background    *)
(* tasks between them.                                                     *)

\* a path in a directory that is neither transcripts nor reports
Outside(name) == [dir |-> "outside", name |-> name]

\* a link kept in the transcripts directory under a listed name
LinkInside == transcript_path(<<"l">>).val

\* a link kept outside the managed directories
LinkOutside == Outside(<<"l">>)

TranscriptA == transcript_path(<<"a">>).val

TranscriptB == transcript_path(<<"b">>).val

ReportA == report_path(<<"a">>).val

\* the storages the service is started on: files of both managed
\* directories and of another one, a link from inside to outside, a link
\* from outside to inside, a link whose target does not exist, a link to
\* itself
StoreStorages ==
    {(TranscriptA :> RegularFile) @@ (ReportA :> RegularFile)
        @@ (Outside(<<"x">>) :> RegularFile),
     (TranscriptA :> RegularFile) @@ (LinkInside :> SymLink(Outside(<<"x">>)))
        @@ (Outside(<<"x">>) :> RegularFile),
     (TranscriptA :> RegularFile) @@ (LinkOutside :> SymLink(TranscriptA)),
     (ReportA :> RegularFile) @@ (LinkInside :> SymLink(TranscriptB)),
     (TranscriptA :> RegularFile) @@ (LinkInside :> SymLink(LinkInside))}

\* the paths delete_file is called with
DeletePaths ==
    {TranscriptA, TranscriptB, ReportA, LinkInside, LinkOutside, Outside(<<"x">>)}

\* the identifiers save_transcript and save_report are called with
SaveIds == {<<"a">>, <<"b">>}

\* an order of the paths of a set, as a sequence
OrderOf(S) == CHOOSE s \in DistinctSeqs(S, Cardinality(S)) : Len(s) = Cardinality(S)

InitStore ==
    /\ \E f \in StoreStorages :
          /\ fs = f
          /\ recency = OrderOf(DOMAIN f)
          /\ app = App_new(list_files(f, OrderOf(DOMAIN f)))
    /\ Idle

\* delete_file(path), lines 162-163: ensure_managed_path returns Ok, the call
\* goes on to remove_file, or Err, which delete_file returns
StoreDeleteCheck(path) ==
    /\ del.pc # "checked"
    /\ del' = IF ensure_managed_path(fs, path)
              THEN [pc |-> "checked", path |-> path]
              ELSE [pc |-> "err", path |-> path]
    /\ UNCHANGED <<app, running, processing_rx, jobs, fs, recency, applied, env>>

\* delete_file, lines 164-165: remove_file removes the entry or fails
StoreDeleteRemove ==
    /\ del.pc = "checked"
    /\ IF del.path \in DOMAIN fs
       THEN /\ fs' = remove_file(fs, del.path)
            /\ recency' = Without(recency, del.path)
            /\ del' = [pc |-> "ok", path |-> del.path]
       ELSE /\ del' = [pc |-> "err", path |-> del.path]
            /\ UNCHANGED <<fs, recency>>
    /\ UNCHANGED <<app, running, processing_rx, jobs, applied, env>>

\* the write of save_transcript in a background task
StoreSaveTranscript(id) ==
    /\ fs' = fs_write(fs, transcript_path(id).val)
    /\ recency' = touch(fs, recency, transcript_path(id).val)
    /\ UNCHANGED <<app, running, processing_rx, jobs, applied, del, env>>

\* the write of save_report in a background task
StoreSaveReport(id) ==
    /\ fs' = fs_write(fs, report_path(id).val)
    /\ recency' = touch(fs, recency, report_path(id).val)
    /\ UNCHANGED <<app, running, processing_rx, jobs, applied, del, env>>

NextStore ==
    \/ \E path \in DeletePaths : StoreDeleteCheck(path)
    \/ StoreDeleteRemove
    \/ \E id \in SaveIds : StoreSaveTranscript(id)
    \/ \E id \in SaveIds : StoreSaveReport(id)

SpecStore == InitStore /\ [][NextStore]_vars

\* the path resolves, in the file system f, to a location in the transcripts
\* or the reports directory
ResolvesManaged(f, path) ==
    \E q \in DOMAIN f :
        /\ canonicalize(f, path) = Some(q)
        /\ q.dir \in {TRANSCRIPTS_DIR, REPORTS_DIR}

\* the step removes an entry of the file system
Removes == \E q \in DOMAIN fs : q \notin DOMAIN fs'

\* a call of delete_file returns in this step
Returns == del'.pc \in {"ok", "err"} /\ (del.pc = "checked" \/ del' # del)

\* C9: a step removes an entry only as the removal of delete_file(p), the
\* entry is p and p resolves under a managed directory at that moment; a call
\* with a path that does not resolve under a managed directory returns an
\* error, and a call that returns an error has removed nothing
C9_DeleteOnlyManaged ==
    [][/\ Removes =>
             /\ del.pc = "checked"
             /\ DOMAIN fs' = DOMAIN fs \ {del.path}
             /\ ResolvesManaged(fs, del.path)
       /\ (del.pc # "checked" /\ del' # del /\ ~ResolvesManaged(fs, del'.path)) =>
             del'.pc = "err"
       /\ (Returns /\ del'.pc = "err") => fs' = fs]_vars

\* delete_file has removed a path, and a later call with a path that is
\* outside the managed directories was refused with every file in place
C9_Witness ==
    /\ del.pc = "err"
    /\ del.path = Outside(<<"x">>)
    /\ Outside(<<"x">>) \in DOMAIN fs
    /\ TranscriptA \notin DOMAIN fs


-----------------------------------------------------------------------------
(* The specification of the Browser screen: the list of the stored files   *)
(* is shown, entries are highlighted, marked with Space and deleted.       *)

\* the storages the browser is opened on: files only, a listed link to a
\* file outside the managed directories, a listed link to a listed file, a
\* listed link whose target does not exist
BrowseStorages ==
    {(TranscriptA :> RegularFile) @@ (TranscriptB :> RegularFile)
        @@ (ReportA :> RegularFile),
     (TranscriptA :> RegularFile) @@ (LinkInside :> SymLink(Outside(<<"x">>)))
        @@ (Outside(<<"x">>) :> RegularFile),
     (LinkInside :> SymLink(TranscriptA)) @@ (TranscriptA :> RegularFile),
     (TranscriptA :> RegularFile) @@ (LinkInside :> SymLink(TranscriptB))}

\* the application after Down and Enter on Home: the Browser screen
BrowserOn(f, rec) ==
    LET home == [app |-> App_new(list_files(f, rec)), rx |-> <<>>, jobs |-> <<>>,
                 fs |-> f, recency |-> rec, applied |-> <<>>, outcome |-> "ok"]
    IN handle_home_key(handle_home_key(home, Key("Down")), Key("Enter")).app

InitBrowse ==
    /\ \E f \in BrowseStorages :
          /\ fs = f
          /\ recency = OrderOf(DOMAIN f)
          /\ app = BrowserOn(f, OrderOf(DOMAIN f))
    /\ Idle

\* the keys read while the browser is shown
BrowseKeys == {Key("Down"), Key("Up"), CharKey(" "), Key("Delete"), Key("Esc")}

BrowseKey ==
    /\ running = "running"
    /\ \E key \in BrowseKeys : \E lines \in OpenedLines(app, key) :
          Iterate(next_event(key), AreaHeight, lines)

NextBrowse == BrowseKey \/ Tick

SpecBrowse == InitBrowse /\ [][NextBrowse]_vars

\* the main loop handles Delete on the Browser screen
DeleteStep == app.state.tag = "Browser" /\ KeyStep(Key("Delete"))

\* the path is the path of an entry of the list
ListedIn(fl, path) == \E i \in 1..Len(fl.items) : fl.items[i].path = path

\* the step has removed the file of the path and the list no longer has it
Deleted(path) == path \notin DOMAIN fs' /\ ~ListedIn(app'.file_list, path)

\* the paths of the entries that are marked
MarkedPaths == {m.path : m \in Range(FileList_get_selected_items(app.file_list))}

\* the file system without the entries of a set of paths
FsWithout(paths) == [q \in DOMAIN fs \ paths |-> fs[q]]

\* C10 as stated: Delete on the Browser screen removes the file of the
\* highlighted entry when its path resolves inside a managed directory, and
\* the refreshed list no longer has the entry
C10_DeleteRemovesHighlighted ==
    [][(/\ DeleteStep
        /\ IsSome(FileList_get_selected(app.file_list))
        /\ ResolvesManaged(fs, Unwrap(FileList_get_selected(app.file_list)).path)) =>
            Deleted(Unwrap(FileList_get_selected(app.file_list)).path)]_vars

\* C10: Delete on the Browser screen removes the file of every marked entry
\* when the path of each resolves inside a managed directory without passing
\* through another marked entry: the refreshed list has none of them, and no
\* file of an entry that is not marked is removed, the highlighted one
\* included
C10_DeleteRemovesMarked ==
    [][DeleteStep =>
          /\ (\A p \in MarkedPaths : ResolvesManaged(FsWithout(MarkedPaths \ {p}), p)) =>
                /\ \A p \in MarkedPaths : Deleted(p)
                /\ running' = "running"
          /\ \A q \in DOMAIN fs \ MarkedPaths : q \in DOMAIN fs']_vars

\* a marked file was deleted while the highlighted entry was kept: the list
\* is shown after the refresh, with the entry it highlights and without the
\* file that was removed
C10_Witness ==
    /\ app.state.tag = "Browser"
    /\ running = "running"
    /\ TranscriptA \notin DOMAIN fs
    /\ ~ListedIn(app.file_list, TranscriptA)
    /\ IsSome(FileList_get_selected(app.file_list))
    /\ Unwrap(FileList_get_selected(app.file_list)).path \in DOMAIN fs

-----------------------------------------------------------------------------
(* The specification of concurrent jobs: the form holds a valid identifier *)
(* with the report opted out, is submitted, left with Esc and submitted    *)
(* again while the first job runs.                                         *)

InitJobs ==
    /\ app = [FormWith(App_new(<<>>), <<"a">>) EXCEPT !.generate_report = FALSE]
    /\ fs = <<>>
    /\ recency = <<>>
    /\ Idle

\* the keys read while jobs run
JobKeys == {Key("Enter"), Key("Esc")}

JobKey ==
    /\ running = "running"
    /\ \E key \in JobKeys : Iterate(next_event(key), AreaHeight, 0)

NextJobs ==
    \/ JobKey
    \/ Tick
    \/ \E j \in 1..Len(jobs) : JobStart(j)
    \/ \E j \in 1..Len(jobs), r \in Results : JobFetched(j, r)
    \/ \E j \in 1..Len(jobs), r \in Results : JobTranscriptSaved(j, r)

SpecJobs == InitJobs /\ [][NextJobs]_vars

\* the messages of job j among msgs, in the order of msgs
OfJob(msgs, j) == SelectIdx(msgs, {i \in 1..Len(msgs) : msgs[i].job = j})

\* s is a prefix of t
IsPrefix(s, t) == Len(s) <= Len(t) /\ SubSeq(t, 1, Len(s)) = s

\* the messages applied so far are, job by job, the first messages the job
\* sent, in the order it sent them
AppliedInSendOrder ==
    \A j \in 1..Len(jobs) : IsPrefix(OfJob(applied, j), jobs[j].sent)

\* a step that applies a message applies every message of the channel and
\* leaves the channel empty
DrainsAll ==
    applied' # applied => (applied' = applied \o processing_rx /\ processing_rx' = <<>>)

\* C2: handle_tick applies the messages of a job in the order the job sent
\* them, the terminal message after every earlier one, and a tick applies
\* every message that is available when it runs
C2_AppliedInSendOrder == []AppliedInSendOrder /\ [][DrainsAll]_vars

\* two jobs have run to their end at the same time and every message of
\* both has been applied: a message of the second job before one of the first
C2_Witness ==
    /\ Len(jobs) = 2
    /\ jobs[1].pc = "done" /\ jobs[2].pc = "done"
    /\ OfJob(applied, 1) = jobs[1].sent
    /\ OfJob(applied, 2) = jobs[2].sent
    /\ \E i, k \in 1..Len(applied) :
          i < k /\ applied[i].job = 2 /\ applied[k].job = 1

-----------------------------------------------------------------------------
(* Properties of the Browser screen: a delete that is refused *)

\* this step handles Delete on the Browser screen and a delete_file of a
\* marked entry returns the error of ensure_managed_path
RefusedDelete ==
    /\ DeleteStep
    /\ delete_selected_files(draw(World, AreaHeight)).outcome = "err"

\* C11: when a delete requested on the Browser screen is refused, no file is
\* removed, the list is unchanged, the Browser screen stays and the
\* application keeps running
C11_RefusedDeleteKeepsRunning ==
    [][RefusedDelete =>
          /\ fs' = fs
          /\ app'.file_list.items = app.file_list.items
          /\ app'.state.tag = "Browser"
          /\ running' = "running"]_vars

-----------------------------------------------------------------------------
(* Properties of the FileList component: update_items *)

\* C12: update_items called with previous selection s and a new list of n > 0
\* entries leaves the selection at min(s, n - 1); with a new empty list the
\* selection becomes None; with no previous selection and a new list that is
\* not empty it becomes 0
C12_UpdateItemsClampsSelection ==
    [][\A items \in ItemLists :
          ListStep(FileList_update_items(app.file_list, items)) =>
              app'.file_list.selected =
                  IF items = <<>> THEN None
                  ELSE IF IsSome(app.file_list.selected)
                       THEN Some(Min(Unwrap(app.file_list.selected), Len(items) - 1))
                       ELSE Some(0)]_vars

\* a list shorter than the longest one whose last entry is selected and
\* shown in a viewport of one row: what update_items leaves when the last
\* entry of a longer list was selected
C12_Witness ==
    /\ Len(app.file_list.items) = MaxItems - 1
    /\ app.file_list.selected = Some(MaxItems - 2)
    /\ app.file_list.viewport_size = 1
    /\ app.file_list.offset = MaxItems - 2
    /\ \A i \in 1..Len(app.file_list.items) : ~app.file_list.selected_items[i]

-----------------------------------------------------------------------------
(* The specification of progress ingestion: a job was submitted, the        *)
(* Processing screen is shown, and the holder of the channel's sender sends *)
(* PROGRESS messages with any payload, which the ticks drain.               *)

\* the most PROGRESS messages sent in one run
MaxProgress == 3

\* the payloads behind "PROGRESS:"
Payloads ==
    {<<"0", ".", "2", "5">>,
     <<"-", "0", ".", "5">>,
     <<"1", ".", "7">>,
     <<"1", "e", "3">>,
     <<"a", "b", "c">>,
     <<>>,
     <<"i", "n", "f">>,
     <<"N", "a", "N">>}

\* the world after the form with identifier `a' was submitted
Submitted ==
    LET form == [app |-> FormWith(App_new(<<>>), <<"a">>), rx |-> <<>>,
                 jobs |-> <<>>, fs |-> <<>>, recency |-> <<>>,
                 applied |-> <<>>, outcome |-> "ok"]
        enter(w) == handle_new_transcript_key(w, Key("Enter"))
    IN enter(enter(enter(form)))

InitProgress ==
    /\ app = Submitted.app
    /\ jobs = Submitted.jobs
    /\ running = "running"
    /\ processing_rx = <<>>
    /\ applied = <<>>
    /\ fs = <<>>
    /\ recency = <<>>
    /\ del = [pc |-> "idle"]
    /\ env = Some(<<"1">>)

\* tx.send(format!("PROGRESS:{payload}"))
ProgressSent(payload) ==
    /\ running = "running"
    /\ Len(applied) + Len(processing_rx) < MaxProgress
    /\ processing_rx' =
          Send(processing_rx,
               Stamp(<<Msg("PROGRESS", payload)>>, 1, Len(applied) + Len(processing_rx)))
    /\ UNCHANGED <<app, running, jobs, fs, recency, applied, del, env>>

NextProgress ==
    \/ \E payload \in Payloads : ProgressSent(payload)
    \/ Tick

SpecProgress == InitProgress /\ [][NextProgress]_vars

\* the progress is a number within [0, 1]
InUnit(x) == x.class = "finite" /\ 0 <= x.h /\ x.h <= 100

\* the progress the claim expects after a payload: 0 for a number below 0,
\* 1 for a number above 1, the number itself within [0, 1], and the old
\* progress for a payload that does not parse as a number
Ingested(old, payload) ==
    LET parsed == parse_f64(payload)
        x == Unwrap(parsed)
    IN IF ~IsSome(parsed) \/ x.class = "nan" THEN old
       ELSE IF x.class = "inf" THEN F64(IF x.h < 0 THEN 0 ELSE 100)
       ELSE F64(Max(0, Min(x.h, 100)))

RECURSIVE IngestedAll(_, _)
IngestedAll(old, msgs) ==
    IF msgs = <<>> THEN old
    ELSE IngestedAll(Ingested(old, Head(msgs).val), Tail(msgs))

-----------------------------------------------------------------------------
(* Properties of a submission: identifier normalisation *)

\* id is the text without whitespace at its two ends
Surrounded(text, id) ==
    \E i \in 0..Len(text) : \E k \in i..Len(text) :
        /\ \A n \in 1..i : text[n] \in Whitespace
        /\ \A n \in (k + 1)..Len(text) : text[n] \in Whitespace
        /\ id = SubSeq(text, i + 1, k)

\* the text, whitespace at its two ends apart, is an identifier as
\* normalisation yields them
TrimsToNormalized(text) ==
    \E i \in 0..Len(text) : \E k \in i..Len(text) :
        /\ \A n \in 1..i : text[n] \in Whitespace
        /\ \A n \in (k + 1)..Len(text) : text[n] \in Whitespace
        /\ Normalized(SubSeq(text, i + 1, k))

\* C14: on the text of the identifier field, extract_video_id returns
\* Some(id) only for an id that is not empty, at most 128 characters long and
\* made of ASCII letters, digits, `-' and `_'; sanitize_video_id accepts
\* exactly the texts that are such an id between whitespace, returns the id,
\* and rejects every other text
C14_NormalizationAcceptsExactlyIds ==
    LET text == app.url_input.value
        extracted == extract_video_id(text)
        sanitized == sanitize_video_id(text)
    IN /\ IsSome(extracted) => Normalized(Unwrap(extracted))
       /\ sanitized.ok <=> TrimsToNormalized(text)
       /\ sanitized.ok => Surrounded(text, sanitized.val) /\ Normalized(sanitized.val)

\* the form held an identifier between a tab and a newline and was
\* submitted: the job carries the identifier without them
C14_Witness ==
    /\ app.url_input.value = <<"\t", "a", "b", "\n">>
    /\ jobs # <<>>
    /\ jobs[1].video_id = <<"a", "b">>
    /\ app.state.tag = "Processing"

-----------------------------------------------------------------------------
(* The markdown viewer: src/tui/components/viewer.rs.  A text is a sequence *)
(* of characters; a character outside ASCII is written as a word: the box   *)
(* drawing characters, the bullet, and a character two columns wide.        *)

\* a character two columns wide, such as U+4E16
Wide == "wide"

\* U+2022, the bullet of a list item
Bullet == "bullet"

\* UnicodeWidthChar::width
char_width(c) == IF c = Wide THEN 2 ELSE IF c = "\n" THEN 0 ELSE 1

\* display_width: UnicodeWidthStr::width
RECURSIVE display_width(_)
display_width(s) ==
    IF s = <<>> THEN 0 ELSE char_width(Head(s)) + display_width(Tail(s))

\* textwrap's words of a line: a run of characters other than the blank, and
\* the blanks behind it
RECURSIVE find_words(_)
find_words(line) ==
    IF line = <<>> THEN <<>>
    ELSE LET n == Len(line)
             wend == CHOOSE i \in 1..(n + 1) :
                        /\ i = n + 1 \/ line[i] = " "
                        /\ \A k \in 1..(i - 1) : line[k] # " "
             send == CHOOSE i \in wend..(n + 1) :
                        /\ i = n + 1 \/ line[i] # " "
                        /\ \A k \in wend..(i - 1) : line[k] = " "
         IN <<[word |-> SubSeq(line, 1, wend - 1),
               whitespace |-> SubSeq(line, wend, send - 1)]>>
            \o find_words(SubSeq(line, send, n))

\* textwrap's Word::break_apart: the pieces of a word, each as long as fits
\* in line_width and at least one character long; piece is the piece begun
RECURSIVE break_apart(_, _, _)
break_apart(word, piece, line_width) ==
    IF word = <<>> THEN <<piece>>
    ELSE IF /\ display_width(piece) > 0
            /\ display_width(piece) + char_width(Head(word)) > line_width
         THEN <<piece>> \o break_apart(Tail(word), <<Head(word)>>, line_width)
         ELSE break_apart(Tail(word), Append(piece, Head(word)), line_width)

\* textwrap's break_words: a word wider than the line is broken apart, its
\* blanks stay behind the last piece
RECURSIVE break_words(_, _)
break_words(words, line_width) ==
    IF words = <<>> THEN <<>>
    ELSE LET w == Head(words)
             pieces == break_apart(w.word, <<>>, line_width)
             broken == [i \in 1..Len(pieces) |->
                          [word |-> pieces[i],
                           whitespace |-> IF i = Len(pieces) THEN w.whitespace
                                          ELSE <<>>]]
         IN (IF display_width(w.word) > line_width THEN broken ELSE <<w>>)
            \o break_words(Tail(words), line_width)

\* textwrap's wrap_first_fit: a word that does not fit behind the words of
\* the line begins the next line; line holds the words placed on the line
\* begun and width is their width with the blanks behind them
RECURSIVE wrap_first_fit(_, _, _, _)
wrap_first_fit(words, line, width, line_width) ==
    IF words = <<>> THEN <<line>>
    ELSE LET f == Head(words)
             fw == display_width(f.word) + display_width(f.whitespace)
         IN IF width + display_width(f.word) > line_width /\ line # <<>>
            THEN <<line>> \o wrap_first_fit(Tail(words), <<f>>, fw, line_width)
            ELSE wrap_first_fit(Tail(words), Append(line, f), width + fw, line_width)

\* the text of a wrapped line: its words with the blanks between them
RECURSIVE line_text(_)
line_text(words) ==
    IF words = <<>> THEN <<>>
    ELSE IF Len(words) = 1 THEN words[1].word
    ELSE words[1].word \o words[1].whitespace \o line_text(Tail(words))

\* textwrap's wrap_single_line
wrap_single_line(line, width) ==
    LET lines == wrap_first_fit(break_words(find_words(line), width), <<>>, 0, width)
    IN [i \in 1..Len(lines) |-> line_text(lines[i])]

\* textwrap::wrap: every line of the text is wrapped on its own
RECURSIVE wrap(_, _)
wrap(text, width) ==
    LET nl == Find(text, <<"\n">>)
    IN IF nl = 0 THEN wrap_single_line(text, width)
       ELSE wrap_single_line(SubSeq(text, 1, nl - 1), width)
            \o wrap(SubSeq(text, nl + 1, Len(text)), width)

\* a Style: its modifiers and its foreground colour
Style(mods, fg) == [mods |-> mods, fg |-> fg]

\* Span::styled; a Line is the sequence of its spans, Line::from("") has none
Span(content, style) == [content |-> content, style |-> style]

\* style_from_mods
style_from_mods(mods) ==
    Style(Range(mods), IF "UNDERLINED" \in Range(mods) THEN "Blue" ELSE "Reset")

\* center_text
center_text(s, width) ==
    LET w == display_width(s)
        total == width - w
        left == total \div 2
        right == total - left
    IN IF w >= width THEN s
       ELSE [i \in 1..left |-> " "] \o s \o [i \in 1..right |-> " "]

\* pad_right
pad_right(s, width) ==
    LET w == display_width(s)
    IN IF w >= width THEN s ELSE s \o [i \in 1..(width - w) |-> " "]

\* draw_border
RECURSIVE draw_columns(_, _, _, _)
draw_columns(mid, horiz, col_widths, i) ==
    IF i > Len(col_widths) THEN <<>>
    ELSE [k \in 1..(col_widths[i] + 2) |-> horiz]
         \o (IF i < Len(col_widths) THEN <<mid>> ELSE <<>>)
         \o draw_columns(mid, horiz, col_widths, i + 1)

draw_border(left, mid, right, horiz, col_widths) ==
    <<left>> \o draw_columns(mid, horiz, col_widths, 1) \o <<right>>

\* the colour of the borders of a table
Gray == Style({}, "Gray")

\* render_row_styled
RECURSIVE row_spans(_, _, _, _)
row_spans(cells, col_widths, header, i) ==
    IF i > Len(cells) THEN <<>>
    ELSE LET content == IF header THEN center_text(cells[i], col_widths[i])
                        ELSE pad_right(cells[i], col_widths[i])
             style == IF header THEN Style({"BOLD"}, "Cyan") ELSE Style({}, "Reset")
         IN <<Span(<<" ">> \o content \o <<" ">>, style), Span(<<"box:v">>, Gray)>>
            \o row_spans(cells, col_widths, header, i + 1)

render_row_styled(cells, col_widths, header) ==
    <<Span(<<"box:v">>, Gray)>> \o row_spans(cells, col_widths, header, 1)

\* let min_keep = 3 in render_table
min_keep == 3

\* idxs of render_table: the columns, the widest first, in a stable order
RECURSIVE widest_first(_, _)
widest_first(col_widths, left) ==
    IF left = {} THEN <<>>
    ELSE LET i == CHOOSE i \in left : \A k \in left :
                      \/ col_widths[i] > col_widths[k]
                      \/ col_widths[i] = col_widths[k] /\ i <= k
         IN <<i>> \o widest_first(col_widths, left \ {i})

\* the shrinking loop of render_table without the floor
RECURSIVE shrink_to_nothing(_, _, _)
shrink_to_nothing(col_widths, over, idxs) ==
    IF idxs = <<>> \/ over = 0 THEN col_widths
    ELSE LET i == Head(idxs)
             reduce == Min(col_widths[i], over)
         IN shrink_to_nothing([col_widths EXCEPT ![i] = @ - reduce], over - reduce,
                              Tail(idxs))

\* the shrinking loop of render_table
RECURSIVE shrink(_, _, _)
shrink(col_widths, over, idxs) ==
    IF idxs = <<>> \/ over = 0 THEN col_widths
    ELSE LET i == Head(idxs)
             reduce == Min(col_widths[i] - min_keep, over)
         IN IF col_widths[i] > min_keep
            THEN shrink([col_widths EXCEPT ![i] = @ - reduce], over - reduce, Tail(idxs))
            ELSE shrink(col_widths, over, Tail(idxs))

\* the largest of a set of numbers, 0 for the empty set
MaxOf(S) == IF S = {} THEN 0 ELSE CHOOSE m \in S : \A k \in S : k <= m

\* cells.get(i).cloned().unwrap_or_default()
CellOr(cells, i) == IF i <= Len(cells) THEN cells[i] ELSE <<>>

\* the natural widths render_table computes
natural_widths(headers, rows) ==
    LET cols == Max(Len(headers), MaxOf({Len(rows[r]) : r \in 1..Len(rows)}))
    IN [i \in 1..cols |->
           Max(display_width(CellOr(headers, i)),
               MaxOf({display_width(CellOr(rows[r], i)) : r \in 1..Len(rows)}))]

\* the sum of a sequence of numbers
RECURSIVE Sum(_)
Sum(s) == IF s = <<>> THEN 0 ELSE Head(s) + Sum(Tail(s))

\* total_needed of render_table
total_needed(col_widths) == Sum(col_widths) + 2 * Len(col_widths) + Len(col_widths) + 1

\* the closure wrap_row of render_table
wrap_row(cells, col_widths) ==
    LET cols == Len(col_widths)
        wrapped_cols == [i \in 1..cols |-> wrap(CellOr(cells, i), Max(col_widths[i], 1))]
        max_lines == MaxOf({Max(Len(wrapped_cols[i]), 1) : i \in 1..cols})
    IN [l \in 1..max_lines |-> [i \in 1..cols |-> CellOr(wrapped_cols[i], l)]]

\* the lines of a logical row of a table and the separator behind them
row_lines(cells, col_widths, header, sep) ==
    LET phys == wrap_row(cells, col_widths)
    IN [l \in 1..Len(phys) |-> render_row_styled(phys[l], col_widths, header)]
       \o <<sep>>

RECURSIVE body_lines(_, _, _)
body_lines(rows, col_widths, sep) ==
    IF rows = <<>> THEN <<>>
    ELSE row_lines(Head(rows), col_widths, FALSE, sep)
         \o body_lines(Tail(rows), col_widths, sep)

\* the widths render_table gives the columns: the natural ones, shrunk
\* when the table is wider than max_width
fitted_widths(natural, max_width) ==
    IF total_needed(natural) > max_width
    THEN shrink(natural, total_needed(natural) - max_width,
                widest_first(natural, 1..Len(natural)))
    ELSE natural

\* the separator of a table between two logical rows
separator(col_widths) ==
    <<Span(draw_border("box:ml", "box:mm", "box:mr", "box:h", col_widths), Gray)>>

\* the last separator is replaced by the bottom border
close_table(out, col_widths) ==
    [out EXCEPT ![Len(out)] =
        <<Span(draw_border("box:bl", "box:bm", "box:br", "box:h", col_widths), Gray)>>]

\* the lines of a table whose columns have the widths col_widths
table_lines(headers, rows, col_widths) ==
    IF col_widths = <<>> THEN <<>>
    ELSE close_table(
           <<<<Span(draw_border("box:tl", "box:tm", "box:tr", "box:h", col_widths),
                    Gray)>>>>
           \o row_lines(headers, col_widths, TRUE, separator(col_widths))
           \o body_lines(rows, col_widths, separator(col_widths)),
           col_widths)

\* render_table
render_table(headers, rows, max_width) ==
    table_lines(headers, rows, fitted_widths(natural_widths(headers, rows), max_width))

\* the events of pulldown_cmark::Parser
Tag(name) == [name |-> name, level |-> 0]

Heading(level) == [name |-> "Heading", level |-> level]

Start(tag) == [ev |-> "Start", tag |-> tag, text |-> <<>>]

End(tag) == [ev |-> "End", tag |-> tag, text |-> <<>>]

TextEvent(t) == [ev |-> "Text", tag |-> Tag("none"), text |-> t]

CodeEvent(code) == [ev |-> "Code", tag |-> Tag("none"), text |-> code]

SoftBreak == [ev |-> "SoftBreak", tag |-> Tag("none"), text |-> <<>>]

HardBreak == [ev |-> "HardBreak", tag |-> Tag("none"), text |-> <<>>]

\* the locals of parse_markdown_to_lines before the loop
ParserState ==
    [lines |-> <<>>, current |-> <<>>, mods_stack |-> <<>>, header_level |-> None,
     in_table |-> FALSE, table_headers |-> <<>>, table_rows |-> <<>>,
     current_row |-> <<>>, in_table_head |-> FALSE]

\* the buffer pushed as one line, whatever the width
styled_lines_unwrapped(text, width, style) == <<<<Span(text, style)>>>>

\* the lines wrap makes of the buffer, each one span of the style
styled_lines(text, width, style) ==
    LET wrapped == wrap(text, width)
    IN [i \in 1..Len(wrapped) |-> <<Span(wrapped[i], style)>>]

\* if !current.is_empty() { for wrapped in wrap(current.trim_end(), width) ... }
flush(st, width, style) ==
    IF st.current = <<>> THEN st
    ELSE [st EXCEPT !.lines = @ \o styled_lines(TrimEnd(st.current), width, style),
                    !.current = <<>>]

\* lines.push(Line::from(""))
blank_line(st) == [st EXCEPT !.lines = Append(@, <<>>)]

\* Vec::pop
Pop(s) == IF s = <<>> THEN s ELSE SubSeq(s, 1, Len(s) - 1)

\* mods_stack without its last BOLD
remove_last_bold(mods) ==
    LET at == {i \in 1..Len(mods) : mods[i] = "BOLD"}
        pos == MaxOf(at)
    IN IF at = {} THEN mods
       ELSE SubSeq(mods, 1, pos - 1) \o SubSeq(mods, pos + 1, Len(mods))

\* the arm Event::Start of parse_markdown_to_lines
on_start(st, tag, width) ==
    CASE tag.name = "Heading" ->
           [st EXCEPT !.header_level = Some(tag.level),
                      !.mods_stack = Append(@, "BOLD")]
      [] tag.name = "Emphasis" -> [st EXCEPT !.mods_stack = Append(@, "ITALIC")]
      [] tag.name = "Strong" -> [st EXCEPT !.mods_stack = Append(@, "BOLD")]
      [] tag.name = "Strikethrough" ->
           [st EXCEPT !.mods_stack = Append(@, "CROSSED_OUT")]
      [] tag.name = "Item" -> [st EXCEPT !.current = @ \o <<Bullet, " ">>]
      [] tag.name = "Link" -> [st EXCEPT !.mods_stack = Append(@, "UNDERLINED")]
      [] tag.name = "Table" ->
           LET plain == style_from_mods(st.mods_stack)
               style == IF "BOLD" \in Range(st.mods_stack) /\ IsSome(st.header_level)
                        THEN Style(plain.mods, "Cyan") ELSE plain
           IN [flush(st, width, style) EXCEPT
                  !.in_table = TRUE, !.table_headers = <<>>, !.table_rows = <<>>,
                  !.current_row = <<>>, !.in_table_head = FALSE]
      [] tag.name = "TableHead" -> [st EXCEPT !.in_table_head = TRUE]
      [] tag.name = "TableRow" -> [st EXCEPT !.current_row = <<>>]
      [] OTHER -> st

\* the arm Event::End of parse_markdown_to_lines
on_end(st, tag, width) ==
    CASE tag.name = "Heading" ->
           LET mods == IF IsSome(st.header_level) /\ Unwrap(st.header_level) <= 2
                       THEN Append(st.mods_stack, "UNDERLINED") ELSE st.mods_stack
               style == Style(style_from_mods(mods).mods, "Cyan")
           IN [blank_line(flush(st, width, style)) EXCEPT
                  !.header_level = None,
                  !.mods_stack = remove_last_bold(@)]
      [] tag.name \in {"Emphasis", "Strong", "Strikethrough", "Link"} ->
           [st EXCEPT !.mods_stack = Pop(@)]
      [] tag.name = "CodeBlock" ->
           blank_line(flush(st, width, style_from_mods(st.mods_stack)))
      [] tag.name = "Item" -> flush(st, width, style_from_mods(st.mods_stack))
      [] tag.name = "TableCell" ->
           IF st.in_table
           THEN [st EXCEPT !.current_row = Append(@, st.current), !.current = <<>>]
           ELSE st
      [] tag.name = "TableRow" ->
           IF ~st.in_table THEN st
           ELSE IF st.in_table_head
                THEN [st EXCEPT !.table_headers = st.current_row, !.current_row = <<>>]
                ELSE [st EXCEPT !.table_rows = Append(@, st.current_row),
                                !.current_row = <<>>]
      [] tag.name = "TableHead" -> [st EXCEPT !.in_table_head = FALSE]
      [] tag.name = "Table" ->
           IF st.in_table
           THEN [blank_line([st EXCEPT !.lines =
                                @ \o render_table(st.table_headers, st.table_rows, width)])
                    EXCEPT !.in_table = FALSE]
           ELSE st
      [] tag.name \in {"Paragraph", "List", "BlockQuote"} ->
           blank_line(flush(st, width, style_from_mods(st.mods_stack)))
      [] OTHER -> st

\* one round of the loop of parse_markdown_to_lines
on_event(st, e, width) ==
    CASE e.ev = "Start" -> on_start(st, e.tag, width)
      [] e.ev = "End" -> on_end(st, e.tag, width)
      [] e.ev = "Text" -> [st EXCEPT !.current = @ \o e.text]
      [] e.ev = "Code" ->
           [flush(st, width, style_from_mods(st.mods_stack)) EXCEPT
               !.lines = @ \o styled_lines(e.text, width, Style({"REVERSED"}, "Yellow"))]
      [] e.ev = "SoftBreak" -> [st EXCEPT !.current = Append(@, " ")]
      [] e.ev = "HardBreak" -> flush(st, width, style_from_mods(st.mods_stack))
      [] OTHER -> st

\* the loop of parse_markdown_to_lines over the events of the parser
RECURSIVE parse_events(_, _, _)
parse_events(st, events, width) ==
    IF events = <<>> THEN st
    ELSE parse_events(on_event(st, Head(events), width), Tail(events), width)

\* the text left in the buffer when the events end is wrapped and pushed
final_flush(st, width) == flush(st, width, style_from_mods(st.mods_stack))

\* behind the loop: a table that was not closed is rendered, the buffer is
\* flushed
after_loop(st, width) ==
    final_flush(IF st.in_table
                THEN [st EXCEPT !.lines =
                         @ \o render_table(st.table_headers, st.table_rows, width)]
                ELSE st,
                width)

\* the locals of parse_markdown_to_lines when it returns; src is the
\* sequence of events the parser yields for the text
parse_state(src, width) == after_loop(parse_events(ParserState, src, width), width)

\* parse_markdown_to_lines
parse_markdown_to_lines(src, width) == parse_state(src, width).lines

\* Viewer::new with the content and the lines wrapped for the current width
Viewer_of(content, title) ==
    [content |-> content, title |-> title, scroll |-> 0, lines |-> 0,
     wrapped_lines |-> <<>>, last_known_width |-> 0]

\* the viewer with the lines wrapped for a width; the scroll is clamped to
\* the number of lines
Viewer_rewrapped(v, wrapped, area_width, area_height) ==
    [v EXCEPT !.wrapped_lines = wrapped,
              !.lines = Len(wrapped),
              !.last_known_width = area_width,
              !.scroll = Min(@, SatSub(Len(wrapped), SatSub(area_height, 2)))]

\* Viewer::render wrapping the lines once, for the width of the first render
Viewer_render_once(v, area_width, area_height) ==
    IF v.wrapped_lines = <<>>
    THEN Viewer_rewrapped(v, parse_markdown_to_lines(v.content, SatSub(area_width, 2)),
                          area_width, area_height)
    ELSE v

\* Viewer::render: the lines are wrapped again when the width has changed
Viewer_render(v, area_width, area_height) ==
    IF area_width # v.last_known_width \/ v.wrapped_lines = <<>>
    THEN Viewer_rewrapped(v, parse_markdown_to_lines(v.content, SatSub(area_width, 2)),
                          area_width, area_height)
    ELSE v

-----------------------------------------------------------------------------
(* The specification of the viewer: a file is open on the Viewer screen,   *)
(* its content is rendered at any width and scrolled.                      *)

\* the widest text area the viewer is rendered at
MaxWidth == 12

\* the events of a paragraph of one text
Paragraph(t) == <<Start(Tag("Paragraph")), TextEvent(t), End(Tag("Paragraph"))>>

\* the events of a table cell
Cell(t) ==
    <<Start(Tag("TableCell"))>> \o (IF t = <<>> THEN <<>> ELSE <<TextEvent(t)>>)
    \o <<End(Tag("TableCell"))>>

RECURSIVE Cells(_)
Cells(ts) == IF ts = <<>> THEN <<>> ELSE Cell(Head(ts)) \o Cells(Tail(ts))

RECURSIVE TableRows(_)
TableRows(rows) ==
    IF rows = <<>> THEN <<>>
    ELSE <<Start(Tag("TableRow"))>> \o Cells(Head(rows)) \o <<End(Tag("TableRow"))>>
         \o TableRows(Tail(rows))

\* the events of a table: the cells of the head lie in TableHead without a
\* TableRow around them, the rows of the body follow the head
Table(head, rows) ==
    <<Start(Tag("Table")), Start(Tag("TableHead"))>> \o Cells(head)
    \o <<End(Tag("TableHead"))>> \o TableRows(rows) \o <<End(Tag("Table"))>>

\* the contents of the files that are opened, as the events the parser
\* yields for them
Documents ==
    {Paragraph(<<"a", "b", " ", "c", "d", " ", "e">>),
     Paragraph(<<"a", "b", "c", "d", "e", "f", "g">>),
     Paragraph(<<"a", " ", Wide, Wide>>),
     <<Start(Heading(1)), TextEvent(<<"a", "b", " ", "c", "d">>), End(Heading(1))>>
        \o Paragraph(<<"e", "f">>),
     <<Start(Tag("List")), Start(Tag("Item")), TextEvent(<<"a", "b", " ", "c", "d">>),
       End(Tag("Item")), End(Tag("List"))>>,
     <<Start(Tag("CodeBlock")),
       TextEvent(<<"a", "b", "\n", " ", " ", "c", "d", "e", "\n">>),
       End(Tag("CodeBlock"))>>,
     <<Start(Tag("Paragraph")), TextEvent(<<"a", "b", " ">>),
       CodeEvent(<<"c", "d", " ", "e", "f">>), TextEvent(<<" ", "g">>),
       End(Tag("Paragraph"))>>,
     <<Start(Tag("Paragraph")), TextEvent(<<"a", " ">>), Start(Tag("Strong")),
       TextEvent(<<"b", "c">>), End(Tag("Strong")), TextEvent(<<" ", "d">>),
       End(Tag("Paragraph"))>>,
     <<Start(Tag("Paragraph")), TextEvent(<<"a", " ">>), Start(Tag("Emphasis")),
       TextEvent(<<"b">>), End(Tag("Emphasis")), TextEvent(<<" ">>),
       Start(Tag("Strikethrough")), TextEvent(<<"c">>), End(Tag("Strikethrough")),
       TextEvent(<<" ">>), Start(Tag("Link")), TextEvent(<<"d">>), End(Tag("Link")),
       End(Tag("Paragraph"))>>,
     <<Start(Tag("Paragraph")), TextEvent(<<"a", "b">>), SoftBreak,
       TextEvent(<<"c", "d">>), HardBreak, TextEvent(<<"e", "f">>),
       End(Tag("Paragraph"))>>,
     Table(<<<<"h">>>>, <<<<<<"a", "b", "c", "d", "e", "f">>>>, <<<<"g", " ", "h">>>>>>),
     Table(<<<<"x">>, <<"y">>>>,
           <<<<<<"a", "b", "c", "d">>, <<"e">>>>, <<<<"f">>>>>>),
     Paragraph(<<"a", "b">>)
        \o Table(<<<<"x">>, <<"y">>>>, <<<<<<Wide, Wide, Wide>>, <<"a", "b">>>>>>)}

\* the heights of the area the viewer is rendered in
ViewerHeights == {3, MaxHeight}

InitLayout ==
    /\ \E content \in Documents :
          app = [App_new(<<FileEntry(TranscriptA)>>) EXCEPT
                    !.state = [tag |-> "Viewer", file_path |-> TranscriptA],
                    !.content_viewer = Some(Viewer_of(content, TranscriptA))]
    /\ fs = (TranscriptA :> RegularFile)
    /\ recency = <<TranscriptA>>
    /\ Idle

\* ui::draw on the Viewer screen: Viewer::render in an area of the frame
LayoutRender ==
    /\ running = "running"
    /\ \E area_width \in 2..(MaxWidth + 2), area_height \in ViewerHeights :
          app' = [app EXCEPT !.content_viewer =
                     Some(Viewer_render(Unwrap(@), area_width, area_height))]
    /\ UNCHANGED <<running, processing_rx, jobs, fs, recency, applied, del, env>>

\* a scroll key on the Viewer screen
LayoutKey ==
    /\ running = "running"
    /\ \E key \in {Key("Down"), Key("Up")} : app' = handle_viewer_key(World, key).app
    /\ UNCHANGED <<running, processing_rx, jobs, fs, recency, applied, del, env>>

NextLayout == LayoutRender \/ LayoutKey

SpecLayout == InitLayout /\ [][NextLayout]_vars

\* the viewer and the width its lines were wrapped for
TheViewer == Unwrap(app.content_viewer)

ViewWidth == SatSub(TheViewer.last_known_width, 2)

Rendered == TheViewer.wrapped_lines # <<>>

\* the display width of a line: the sum over its spans
RECURSIVE line_width(_)
line_width(line) ==
    IF line = <<>> THEN 0
    ELSE display_width(Head(line).content) + line_width(Tail(line))

\* the line is a line of a table: a border, or a row that begins with one
IsTableLine(line) == line # <<>> /\ line[1].style = Gray

\* the rows of the table of the content, and the natural widths of its columns
TableOf == parse_state(TheViewer.content, ViewWidth)

NaturalWidths == natural_widths(TableOf.table_headers, TableOf.table_rows)

\* the lengths of the runs of `box:h' of a border without the two of the
\* padding: the widths of the columns as they were emitted
RECURSIVE RunLengths(_, _)
RunLengths(border, run) ==
    IF border = <<>> THEN <<>>
    ELSE IF Head(border) = "box:h" THEN RunLengths(Tail(border), run + 1)
    ELSE (IF run > 0 THEN <<run - 2>> ELSE <<>>) \o RunLengths(Tail(border), 0)

EmittedWidths ==
    LET tops == {i \in 1..Len(TheViewer.wrapped_lines) :
                    /\ IsTableLine(TheViewer.wrapped_lines[i])
                    /\ TheViewer.wrapped_lines[i][1].content[1] = "box:tl"}
    IN IF tops = {} THEN <<>>
       ELSE RunLengths(TheViewer.wrapped_lines[CHOOSE i \in tops : TRUE][1].content, 0)

TableLinesFit ==
    \A i \in 1..Len(TheViewer.wrapped_lines) :
        IsTableLine(TheViewer.wrapped_lines[i]) =>
            line_width(TheViewer.wrapped_lines[i]) <= ViewWidth

\* C15: for a table whose natural total width exceeds the target width,
\* each final column width w_i satisfies min(natural_i, 3) <= w_i <= natural_i,
\* and every emitted row of the table has display width <= target width
\* unless every column whose natural width exceeds 3 was reduced to exactly 3
C15_TableShrinksToFloor ==
    (Rendered /\ NaturalWidths # <<>> /\ total_needed(NaturalWidths) > ViewWidth) =>
        /\ Len(EmittedWidths) = Len(NaturalWidths)
        /\ \A i \in 1..Len(NaturalWidths) :
              /\ Min(NaturalWidths[i], 3) <= EmittedWidths[i]
              /\ EmittedWidths[i] <= NaturalWidths[i]
        /\ \/ TableLinesFit
           \/ \A i \in 1..Len(NaturalWidths) :
                 NaturalWidths[i] > 3 => EmittedWidths[i] = 3

\* a table wider than the target was shrunk and fits: a column is narrower
\* than its natural width and no row is wider than the target
C15_Witness ==
    /\ Rendered
    /\ NaturalWidths # <<>>
    /\ total_needed(NaturalWidths) > ViewWidth
    /\ EmittedWidths # NaturalWidths
    /\ TableLinesFit
    /\ \E i \in 1..Len(NaturalWidths) : EmittedWidths[i] > 3

\* the table cannot be shrunk to the width: it is wider with every column
\* at the smaller of its natural width and 3
Unshrinkable ==
    total_needed([i \in 1..Len(NaturalWidths) |-> Min(NaturalWidths[i], 3)]) > ViewWidth

\* the line is one character that is wider than the width
LoneWideCharacter(line) ==
    /\ Len(line) = 1
    /\ Len(line[1].content) = 1
    /\ char_width(line[1].content[1]) > ViewWidth

\* C16 as stated: for every width w >= 1 and every text, each display line
\* emitted outside an unshrinkable table has display width <= w
C16_LinesFitWidth ==
    (Rendered /\ ViewWidth >= 1) =>
        \A i \in 1..Len(TheViewer.wrapped_lines) :
            \/ IsTableLine(TheViewer.wrapped_lines[i]) /\ Unshrinkable
            \/ line_width(TheViewer.wrapped_lines[i]) <= ViewWidth

\* C16: for every width w >= 1 and every text, each display line emitted
\* outside an unshrinkable table has display width <= w, or is one single
\* character that is wider than w
C16_LinesFitWidthOrOneCharacter ==
    (Rendered /\ ViewWidth >= 1) =>
        \A i \in 1..Len(TheViewer.wrapped_lines) :
            \/ IsTableLine(TheViewer.wrapped_lines[i]) /\ Unshrinkable
            \/ line_width(TheViewer.wrapped_lines[i]) <= ViewWidth
            \/ LoneWideCharacter(TheViewer.wrapped_lines[i])

\* a word longer than the width was broken: the text of seven letters was
\* rendered at width 3 into three lines, none wider than 3
C16_Witness ==
    /\ Rendered
    /\ ViewWidth = 3
    /\ TheViewer.content = Paragraph(<<"a", "b", "c", "d", "e", "f", "g">>)
    /\ Len(TheViewer.wrapped_lines) = 4
    /\ TheViewer.wrapped_lines[3] = <<Span(<<"g">>, Style({}, "Reset"))>>


-----------------------------------------------------------------------------
(* Properties of the main loop: when the channel is drained *)

\* this step is a round of the main loop, for a key or for a tick, after
\* which the loop goes on to draw the next frame
LoopRound ==
    /\ TickStep \/ \E key \in Keys : KeyStep(key)
    /\ running' = "running"

\* C17: in every round of the main loop, whatever the event was (a key or a
\* tick), the pending messages of the jobs are drained once after the event
\* is handled and before the next frame is drawn: the messages that waited
\* are applied and the channel is empty
C17_EveryRoundDrains ==
    [][(LoopRound /\ processing_rx # <<>>) =>
          (processing_rx' = <<>> /\ applied' = applied \o processing_rx)]_vars


-----------------------------------------------------------------------------
(* The specification of jobs that run to their end: every call of a        *)
(* collaborator returns, and the poll of the main loop times out again and *)
(* again when no key arrives.                                              *)

InitLive ==
    /\ \E with_report \in BOOLEAN :
          app = [FormWith(App_new(<<>>), <<"a">>) EXCEPT !.generate_report = with_report]
    /\ fs = <<>>
    /\ recency = <<>>
    /\ Idle

\* a key is read while jobs run; no more than MaxAppJobs jobs are spawned
LiveKey ==
    /\ JobKey
    /\ Grows(jobs', jobs, MaxAppJobs)

\* the next step of job j: the call it awaits returns
JobAdvance(j) ==
    /\ j \in 1..Len(jobs)
    /\ \/ JobStart(j)
       \/ \E r \in Results : JobFetched(j, r)
       \/ \E r \in Results : JobTranscriptSaved(j, r)
       \/ \E r \in Results : JobGenerated(j, r)
       \/ \E r \in Results : JobReportSaved(j, r)

NextLive ==
    \/ LiveKey
    \/ Tick
    \/ \E j \in 1..MaxAppJobs : JobAdvance(j)

\* a tick would change the state: messages wait in the channel
TickEnabled ==
    /\ running = "running"
    /\ processing_rx # <<>>
    /\ WithinBounds(handle_event(draw(World, AreaHeight), [ev |-> "Tick"], 0))

\* weak fairness of Tick, with its enabling condition written out: the poll
\* times out after 100 ms whenever no key arrives
TicksKeepOccurring == []<>(~TickEnabled) \/ []<><<Tick>>_vars

\* ticks keep occurring, and every call a job awaits returns
Fairness ==
    /\ TicksKeepOccurring
    /\ \A j \in 1..MaxAppJobs : WF_vars(JobAdvance(j))

SpecLive == InitLive /\ [][NextLive]_vars /\ Fairness

\* job j has been spawned
Spawned(j) == j \in 1..Len(jobs)

\* job j has sent its terminal message
SentTerminal(j) ==
    /\ j \in 1..Len(jobs)
    /\ \E i \in 1..Len(jobs[j].sent) : jobs[j].sent[i].kind = "COMPLETE"

\* C18: every spawned job eventually sends a terminal message provided each
\* call of a collaborator returns, and if the screen is Processing and ticks
\* keep occurring, the screen eventually becomes Home, unless the user has
\* left the Processing screen with Esc before (the form is shown then)
C18_JobsEndAndScreenReturns ==
    /\ \A j \in 1..MaxAppJobs : Spawned(j) ~> SentTerminal(j)
    /\ (app.state.tag = "Processing")
          ~> (app.state.tag = "Home" \/ app.state.tag = "NewTranscript")
    /\ [][(app.state.tag = "Processing" /\ TickStep) =>
             app'.state.tag \in {"Processing", "Home"}]_vars

\* a job whose fetch failed has sent its terminal message, a tick has
\* applied it and the screen, Processing until then, is Home
C18_Witness ==
    /\ Len(jobs) = 1
    /\ IsSome(jobs[1].failed)
    /\ SentTerminal(1)
    /\ applied = jobs[1].sent
    /\ app.state.tag = "Home"


-----------------------------------------------------------------------------
(* The specification of filter and search: from Home with the option       *)
(* `browse' highlighted, the Browser screen is entered, filtered,          *)
(* searched, left and entered again.                                       *)

\* the application on Home after Down: Enter opens the Browser screen
HomeOnBrowse(f, rec) ==
    LET home == [app |-> App_new(list_files(f, rec)), rx |-> <<>>, jobs |-> <<>>,
                 fs |-> f, recency |-> rec, applied |-> <<>>, outcome |-> "ok"]
    IN handle_home_key(home, Key("Down")).app

InitFilter ==
    /\ fs = (TranscriptA :> RegularFile) @@ (TranscriptB :> RegularFile)
               @@ (ReportA :> RegularFile)
    /\ recency = OrderOf({TranscriptA, TranscriptB, ReportA})
    /\ app = HomeOnBrowse(fs, recency)
    /\ Idle

\* the keys read: into and out of the Browser screen, the filters, the
\* search and its text, a mark and a delete
FilterKeys ==
    {Key("Enter"), Key("Esc"), CharKey("/"), CharKey("2"), CharKey("3"),
     CharKey("b"), CharKey(" "), Key("Delete")}

FilterKey ==
    /\ running = "running"
    /\ \E key \in FilterKeys : \E lines \in OpenedLines(app, key) :
          Iterate(next_event(key), AreaHeight, lines)

NextFilter == FilterKey \/ Tick

SpecFilter == InitFilter /\ [][NextFilter]_vars

\* the entries of the listing of the storage that match the filter and
\* whose name contains the search text
FilteredListing ==
    LET all_files == list_files(fs, recency)
        search_term == to_lowercase(app.search_input.value)
    IN SelectIdx(all_files,
                 {i \in 1..Len(all_files) :
                     /\ matches_filter(app.filter, all_files[i])
                     /\ Contains(to_lowercase(all_files[i].name), search_term)})

\* C19: in every reachable Browse state the displayed list equals the
\* entries of the most recent storage listing that match the current filter
\* and whose name contains the current search text: after entering Browse
\* from Home, after a change of the filter while a search text is set, after
\* an edit of the search and after a delete
C19_ListIsFilteredListing ==
    app.state.tag = "Browser" => app.file_list.items = FilteredListing


-----------------------------------------------------------------------------
(* Properties of the form: its state when the screen is entered *)

\* the form is in its reset state: the identifier empty with cursor 0, the
\* languages at their default with the cursor inside the text, both toggles
\* at their defaults, focus index 0 and only the identifier marked as focused
FormIsReset(a) ==
    /\ a.url_input.value = <<>>
    /\ a.url_input.cursor = 0
    /\ a.languages_input.value = DefaultLanguages
    /\ a.languages_input.cursor <= Len(a.languages_input.value)
    /\ a.preserve_formatting = App_new(<<>>).preserve_formatting
    /\ a.generate_report = App_new(<<>>).generate_report
    /\ a.input_focus = 0
    /\ a.url_input.focused
    /\ ~a.languages_input.focused

\* C20: every time the screen becomes NewTranscript, by Enter on option 0 of
\* Home or by Esc from Processing, the form is in its reset state
C20_FormResetOnEntry ==
    [][(app.state.tag # "NewTranscript" /\ app'.state.tag = "NewTranscript") =>
          FormIsReset(app')]_vars

-----------------------------------------------------------------------------
(* C21: Enter on the form *)

\* the form is shown and the step is the one Enter takes
EnterOnForm == app.state.tag = "NewTranscript" /\ KeyStep(Key("Enter"))

\* C21 as stated: Enter on the form shows Processing exactly when the focus is
\* on the last control and the identifier field is not blank; in every other
\* case the form stays, and the focus advances when it is not on the last
\* control
C21_EnterSubmitsFromLastNonEmpty ==
    [][EnterOnForm =>
         /\ app'.state.tag = "Processing" <=>
               (app.input_focus = 3 /\ InputField_is_valid(app.url_input))
         /\ app'.state.tag # "Processing" =>
               /\ app'.state.tag = "NewTranscript"
               /\ app.input_focus # 3 =>
                     app'.input_focus = (app.input_focus + 1) % 4]_vars

\* C21: Enter on the form shows Processing exactly when the focus is on one of
\* the two toggles and the text of the identifier field normalises to an
\* identifier; in every other case the form stays: the focus advances when it
\* is on one of the two text fields, and nothing changes otherwise
C21_EnterSubmitsFromToggleNormalized ==
    [][EnterOnForm =>
         /\ app'.state.tag = "Processing" <=>
               (app.input_focus >= 2 /\ Normalizes(app.url_input.value))
         /\ app'.state.tag # "Processing" =>
               /\ app'.state.tag = "NewTranscript"
               /\ app.input_focus < 2 =>
                     app'.input_focus = (app.input_focus + 1) % 4
               /\ app.input_focus >= 2 => app' = app]_vars

\* Enter on the first toggle has submitted the form: Processing is shown, the
\* focus is still on the first toggle and one job was spawned
C21_Witness ==
    /\ app.state.tag = "Processing"
    /\ app.input_focus = 2
    /\ Len(jobs) = 1

-----------------------------------------------------------------------------
(* C22: the order of the stages of a job *)

\* the stages of a job with a report, in the order of start_real_processing
StagesWithReport == <<"start", "fetch", "save_transcript", "generate", "save_report">>

\* the stages of a job without a report
StagesWithoutReport == <<"start", "fetch", "save_transcript">>

\* job j has sent COMPLETE
SentComplete(j) == \E i \in 1..Len(jobs[j].sent) : jobs[j].sent[i].kind = "COMPLETE"

\* the stages job j has to run: with a report, or without
StagesOf(j) == IF jobs[j].generate_report THEN StagesWithReport ELSE StagesWithoutReport

\* C22: a job runs its stages in the order fetch, save transcript, generate
\* report, save report; a job none of whose stages failed has sent COMPLETE
\* exactly when it has run the last of them, which is the save of the report
\* when a report is requested and the save of the transcript when it is not;
\* a job without a report never runs the report generator; COMPLETE is the
\* last message a job sends
C22_StagesInOrder ==
    \A j \in 1..Len(jobs) :
       /\ IsPrefix(jobs[j].stages, StagesWithReport)
       /\ ~jobs[j].generate_report => IsPrefix(jobs[j].stages, StagesWithoutReport)
       /\ ~IsSome(jobs[j].failed) => (SentComplete(j) <=> jobs[j].stages = StagesOf(j))
       /\ \A i \in 1..Len(jobs[j].sent) :
             jobs[j].sent[i].kind = "COMPLETE" => i = Len(jobs[j].sent)

\* a job with a report has run all its stages without a failure and has sent
\* COMPLETE, and the report is stored
C22_Witness ==
    \E j \in 1..Len(jobs) :
       /\ jobs[j].generate_report
       /\ ~IsSome(jobs[j].failed)
       /\ jobs[j].stages = StagesWithReport
       /\ SentComplete(j)
       /\ report_path(jobs[j].video_id).val \in DOMAIN fs

-----------------------------------------------------------------------------
(* C23: artifacts that are already stored *)

\* the transcript of job j's identifier is stored
TranscriptStored(j) == transcript_path(jobs[j].video_id).val \in DOMAIN fs

\* the report of job j's identifier is stored
ReportStored(j) == report_path(jobs[j].video_id).val \in DOMAIN fs

\* job j calls fetch_transcript in this step
CallsFetch(j) == jobs[j].pc = "spawned" /\ jobs'[j].pc = "fetch"

\* job j calls generate_report in this step
CallsGenerate(j) == jobs[j].pc = "save_transcript" /\ jobs'[j].pc = "generate"

\* C23: a job does not call the transcript fetcher while the transcript of
\* its identifier is stored, and does not call the report generator while
\* the report of its identifier is stored
C23_StoredIsNotFetchedAgain ==
    [][\A j \in 1..Len(jobs) :
          /\ TranscriptStored(j) => ~CallsFetch(j)
          /\ ReportStored(j) => ~CallsGenerate(j)]_vars

-----------------------------------------------------------------------------
(* C24: report generation without the opt-in.  The form is submitted with  *)
(* a report requested, under each of several environments.                 *)

\* the environments: the variable is not set, or is set to one of these
Environments ==
    {None,
     Some(<<"1">>),
     Some(<<"t", "r", "u", "e">>),
     Some(<<"y", "e", "s">>),
     Some(<<" ", "T", "R", "U", "E", "\n">>),
     Some(<<"Y", "e", "s">>),
     Some(<<>>),
     Some(<<"0">>),
     Some(<<"n", "o">>),
     Some(<<"o", "n">>),
     Some(<<"1", "1">>)}

InitReport ==
    /\ app = [FormWith(App_new(<<>>), <<"a">>) EXCEPT !.generate_report = TRUE]
    /\ fs = <<>>
    /\ recency = <<>>
    /\ running = "running"
    /\ processing_rx = <<>>
    /\ jobs = <<>>
    /\ applied = <<>>
    /\ del = [pc |-> "idle"]
    /\ env \in Environments

\* Enter is read while the form or Processing is shown
ReportKey ==
    /\ running = "running"
    /\ Iterate(next_event(Key("Enter")), AreaHeight, 0)
    /\ Grows(jobs', jobs, MaxAppJobs)

NextReport ==
    \/ ReportKey
    \/ Tick
    \/ \E j \in 1..Len(jobs) : JobStart(j)
    \/ \E j \in 1..Len(jobs) : JobFetched(j, Ok)
    \/ \E j \in 1..Len(jobs) : JobTranscriptSaved(j, Ok)
    \/ \E j \in 1..Len(jobs), r \in Results : JobGenerated(j, r)
    \/ \E j \in 1..Len(jobs), r \in Results : JobReportSaved(j, r)

SpecReport == InitReport /\ [][NextReport]_vars

\* job j has called generate_report and the call has returned
RanGenerate(j) == \E i \in 1..Len(jobs[j].stages) : jobs[j].stages[i] = "generate"

\* job j has told of a failed report stage: a LOG message with the error of
\* the opt-in and the STATUS message of a failed generation, and no message
\* of a finished report
ReportsRefusal(j) ==
    /\ \E i \in 1..Len(jobs[j].sent) :
          /\ jobs[j].sent[i].kind = "LOG"
          /\ CarriesError(jobs[j].sent[i], OptInRequired)
    /\ \E i \in 1..Len(jobs[j].sent) :
          /\ jobs[j].sent[i].kind = "STATUS"
          /\ jobs[j].sent[i].val = Text("Error generating report")
    /\ \A i \in 1..Len(jobs[j].sent) : jobs[j].sent[i].val # Text("Completed")

\* once job j has run the report stage: the stage failed with the error of
\* the opt-in, no request was sent to the report service, no report is
\* stored, and the job has told of the failure
RefusedStage(j) ==
    RanGenerate(j) =>
       /\ jobs[j].failed = Some([stage |-> "generate", err |-> OptInRequired])
       /\ jobs[j].requests = 0
       /\ jobs[j].pc = "done"
       /\ ~ReportStored(j)
       /\ ReportsRefusal(j)

\* C24 as stated: when the variable is not set or its value is not one of
\* 1, true, yes, the report stage fails before a request is sent, no report
\* is saved and the job tells of the failure
C24_RefusedUnlessListedValue ==
    (~IsSome(env) \/ Unwrap(env) \notin OptInValues) =>
        \A j \in 1..Len(jobs) : RefusedStage(j)

\* the value of the variable without the white space around it, in lower case
Canonical(var) == to_ascii_lowercase(Trim(Unwrap(var)))

\* C24: when the variable is not set or its value, trimmed and in lower
\* case, is not one of 1, true, yes, the report stage fails before a request
\* is sent, no report is saved and the job tells of the failure
C24_RefusedUnlessOptIn ==
    (~IsSome(env) \/ Canonical(env) \notin OptInValues) =>
        \A j \in 1..Len(jobs) : RefusedStage(j)

\* the variable is set to "no" and the job has run the report stage
C24_Witness ==
    /\ env = Some(<<"n", "o">>)
    /\ \E j \in 1..Len(jobs) : RanGenerate(j)

-----------------------------------------------------------------------------
(* C25: the log ring.  The form was submitted, the Processing screen is    *)
(* shown, and the holder of the channel's sender sends LOG messages, which *)
(* the ticks drain.                                                        *)

\* the most LOG messages sent in one run
MaxLogs == 12

\* the texts behind "LOG:"
LogTexts == {<<"a">>, <<"b">>}

\* tx.send(format!("LOG:{text}"))
LogSent(text) ==
    /\ running = "running"
    /\ Len(applied) + Len(processing_rx) < MaxLogs
    /\ processing_rx' =
          Send(processing_rx,
               Stamp(<<Msg("LOG", text)>>, 1, Len(applied) + Len(processing_rx)))
    /\ UNCHANGED <<app, running, jobs, fs, recency, applied, del, env>>

NextLog ==
    \/ \E text \in LogTexts : LogSent(text)
    \/ Tick

SpecLog == InitProgress /\ [][NextLog]_vars

\* the text of a ring entry without its time stamp
EntryText(entry) == entry[Len(entry)]

\* the last Min(n, max_logs) of the messages msgs, in their order
MostRecent(msgs) == SubSeq(msgs, Len(msgs) - Min(Len(msgs), max_logs) + 1, Len(msgs))

\* C25: after the LOG messages applied so far the ring holds at most 10
\* entries, and they are the most recent min(n, 10) of the n messages, in the
\* order in which they arrived
C25_RingHoldsMostRecent ==
    /\ Len(app.progress_bar.logs) <= max_logs
    /\ Len(app.progress_bar.logs) = Len(MostRecent(applied))
    /\ \A i \in 1..Len(app.progress_bar.logs) :
          EntryText(app.progress_bar.logs[i]) = MostRecent(applied)[i].val

\* twelve messages were applied, the oldest two were `b' and are gone: the
\* ring starts with the third, an `a'
C25_Witness ==
    /\ Len(applied) = max_logs + 2
    /\ applied[1].val = <<"b">> /\ applied[2].val = <<"b">> /\ applied[3].val = <<"a">>
    /\ Len(app.progress_bar.logs) = max_logs
    /\ EntryText(app.progress_bar.logs[1]) = <<"a">>

-----------------------------------------------------------------------------
(* C26: the focus of the form.  The form is shown as Enter on the first    *)
(* option of Home leaves it, and Tab, characters, the space and Delete are *)
(* typed.                                                                  *)

\* the characters typed into the form
FormChars == {"a", "q"}

\* the keys read while the form is shown
FormKeys == {Key("Tab"), Key("Delete"), CharKey(" ")} \cup {CharKey(c) : c \in FormChars}

InitForm ==
    /\ app = FormWith(App_new(<<>>), <<>>)
    /\ fs = <<>>
    /\ recency = <<>>
    /\ Idle

FormKey ==
    /\ running = "running"
    /\ \E key \in FormKeys : Iterate(next_event(key), AreaHeight, 0)

NextForm == FormKey \/ Tick

SpecForm == InitForm /\ [][NextForm]_vars

\* in this step the field takes the key: it changes as InputField::handle_key
\* changes it
Delivered(field, after, key) ==
    /\ after = InputField_handle_key(field, key)
    /\ after # field

\* the step of a character key on the form delivers the key to the
\* identifier field exactly when the focus is 0 and to the languages field
\* exactly when the focus is 1
CharacterGoesToFocus(key) ==
    /\ Delivered(app.url_input, app'.url_input, key) <=> app.input_focus = 0
    /\ Delivered(app.languages_input, app'.languages_input, key) <=> app.input_focus = 1
    /\ app.input_focus # 0 => app'.url_input = app.url_input
    /\ app.input_focus # 1 => app'.languages_input = app.languages_input

\* the step of the space on the form flips a toggle only when that toggle
\* has the focus
SpaceFlipsFocusedToggle ==
    /\ app'.preserve_formatting # app.preserve_formatting <=> app.input_focus = 2
    /\ app'.generate_report # app.generate_report <=> app.input_focus = 3

\* C26: on the form Tab sets the focus index to (focus + 1) mod 4 and the
\* index stays in 0..3; a character key is delivered to the identifier field
\* exactly when the focus is 0 and to the languages field exactly when the
\* focus is 1; the space flips a toggle only when that toggle has the focus
C26_FocusDecidesReceiver ==
    /\ [](app.input_focus \in 0..3)
    /\ [][app.state.tag = "NewTranscript" =>
            /\ KeyStep(Key("Tab")) => app'.input_focus = (app.input_focus + 1) % 4
            /\ \A c \in FormChars :
                  KeyStep(CharKey(c)) => CharacterGoesToFocus(CharKey(c))
            /\ KeyStep(CharKey(" ")) => SpaceFlipsFocusedToggle]_vars

-----------------------------------------------------------------------------
(* C27: the quit keys *)

\* the keys next_event turns into Quit
QuitKeys == {CharKey("q"), Key("Ctrl-c")}

\* the application after the main loop has drawn the screen and handled key
AfterKey(key) == handle_event(draw(World, AreaHeight), next_event(key), 0)

\* while the loop runs, each quit key yields the event Quit, and handling it
\* sets should_quit and returns Ok, whatever the screen
QuitKeySetsShouldQuit ==
    running = "running" =>
       \A key \in QuitKeys :
          /\ next_event(key) = [ev |-> "Quit"]
          /\ AfterKey(key).app.should_quit
          /\ AfterKey(key).outcome = "ok"
          /\ AfterKey(key).app.state = app.state

\* a job that has not run to its end
Unfinished(j) == jobs[j].pc # "done"

\* C27: on every screen a quit key produces the event Quit, which sets
\* should_quit; the step that handles it ends the loop whether or not jobs
\* are still running, and after it no event is handled, no frame is drawn
\* and nothing else changes
C27_QuitEndsLoop ==
    /\ []QuitKeySetsShouldQuit
    /\ [][\A key \in QuitKeys : KeyStep(key) => running' = "quit"]_vars
    /\ [][running # "quit"]_vars

\* the loop has ended on the Processing screen while a job was still running
C27_Witness ==
    /\ running = "quit"
    /\ app.should_quit
    /\ app.state.tag = "Processing"
    /\ \E j \in 1..Len(jobs) : Unfinished(j)

-----------------------------------------------------------------------------
(* C28: from the Browser screen to the Viewer and back *)

\* one round of the main loop on w for the key: the frame is drawn, the key
\* is handled
Round(w, key) == handle_event(draw(w, AreaHeight), next_event(key), 0)

\* the Browser screen is shown with a list that is not empty
Browsing == running = "running" /\ app.state.tag = "Browser" /\ app.file_list.items # <<>>

\* the application after Enter on the Browser screen
Opened == Round(World, Key("Enter"))

\* the application after Enter on the Browser screen and Esc on the Viewer
Returned == Round(Opened, Key("Esc"))

\* Enter has opened the Viewer on the selected entry
OpensSelected ==
    /\ Opened.outcome = "ok"
    /\ Opened.app.state.tag = "Viewer"
    /\ Opened.app.state.file_path = Unwrap(FileList_get_selected(app.file_list)).path

\* the list and the selection are the ones before Enter
SameList ==
    /\ Returned.app.file_list.items = app.file_list.items
    /\ Returned.app.file_list.selected = app.file_list.selected

\* the filter applied to the list is the one before Enter
SameAppliedFilter == Returned.app.filter = app.filter

\* the Browser screen is the one before Enter, its filter included
SameScreen ==
    /\ Returned.app.state.tag = "Browser"
    /\ Returned.app.state.filter = app.state.filter

\* C28: on the Browser screen with a list that is not empty Enter opens the
\* Viewer on the selected entry, and Esc on the Viewer returns to a Browser
\* screen with the filter, the list contents and the selection of before
\* Enter
C28_EnterEscRestoresBrowser ==
    Browsing => (OpensSelected /\ SameScreen /\ SameAppliedFilter /\ SameList)

-----------------------------------------------------------------------------
(* C29 and C30: movements of the selection of the FileList *)

\* the list of the application is not empty
NonEmptyList == app.file_list.items # <<>>

\* the index of the selected entry
Selected == Unwrap(app.file_list.selected)

\* the number of entries of the list
Length == Len(app.file_list.items)

\* next followed by previous, and previous followed by next, leave the
\* selection where it was
NextPreviousRestore ==
    NonEmptyList =>
       /\ FileList_previous(FileList_next(app.file_list)).selected = app.file_list.selected
       /\ FileList_next(FileList_previous(app.file_list)).selected = app.file_list.selected

\* C29: on a list of n > 0 entries next moves the selection from i to
\* (i + 1) mod n and previous from i to (i - 1) mod n: next from the last
\* entry selects the first, previous from the first selects the last, and
\* next followed by previous restores the selection
C29_NextPreviousWrap ==
    /\ [](NonEmptyList => IsSome(app.file_list.selected))
    /\ []NextPreviousRestore
    /\ [][NonEmptyList =>
            /\ ListNext => app'.file_list.selected = Some((Selected + 1) % Length)
            /\ ListPrevious => app'.file_list.selected = Some((Selected - 1) % Length)
            /\ (ListNext /\ Selected = Length - 1) => app'.file_list.selected = Some(0)
            /\ (ListPrevious /\ Selected = 0) =>
                  app'.file_list.selected = Some(Length - 1)]_vars

\* the last entry of the longest list is selected and is the only row of the
\* viewport: where previous from the first entry leads
C29_Witness ==
    /\ Length = MaxItems
    /\ app.file_list.selected = Some(MaxItems - 1)
    /\ app.file_list.viewport_size = 1
    /\ app.file_list.offset = MaxItems - 1

\* a render has set the size of the viewport
ViewportSet == app.file_list.viewport_size >= 1

\* C30: on a list of n > 0 entries whose viewport size v was set by a render,
\* page_down moves the selection from i to min(i + v, n - 1) and page_up to
\* max(i - v, 0); neither moves the selection past an end of the list to the
\* other end
C30_PageMovesClamp ==
    [][(NonEmptyList /\ ViewportSet) =>
         /\ ListPageDown =>
               /\ app'.file_list.selected =
                     Some(Min(Selected + app.file_list.viewport_size, Length - 1))
               /\ Unwrap(app'.file_list.selected) >= Selected
         /\ ListPageUp =>
               /\ app'.file_list.selected =
                     Some(Max(Selected - app.file_list.viewport_size, 0))
               /\ Unwrap(app'.file_list.selected) <= Selected]_vars

\* the last entry of the longest list is selected in a viewport of two rows
\* that shows the last two entries: where page_down from the second entry
\* leads
C30_Witness ==
    /\ Length = MaxItems
    /\ app.file_list.selected = Some(MaxItems - 1)
    /\ app.file_list.viewport_size = 2
    /\ app.file_list.offset = MaxItems - 2

-----------------------------------------------------------------------------
(* C31: the marks of the FileList *)

\* the marks of the list
Marks == app.file_list.selected_items

\* this step moves the selection: one of the eight movements of the list
ListMoves ==
    \/ ListNext \/ ListPrevious \/ ListPageDown \/ ListPageUp
    \/ ListGoHome \/ ListGoEnd \/ ListScrollUp \/ ListScrollDown

\* toggling twice gives the list back as it was
ToggleTwiceRestores ==
    FileList_toggle_selected(FileList_toggle_selected(app.file_list)) = app.file_list

\* C31: toggle_selected flips the mark of the selected entry and leaves the
\* selection, the offset, the items and every other mark as they are;
\* toggling twice restores the marks; no movement of the selection changes a
\* mark
C31_ToggleFlipsOneMark ==
    /\ []ToggleTwiceRestores
    /\ [][/\ (ListToggleSelected /\ NonEmptyList) =>
               /\ app'.file_list.selected_items = [Marks EXCEPT ![Selected + 1] = ~@]
               /\ app'.file_list.selected = app.file_list.selected
               /\ app'.file_list.offset = app.file_list.offset
               /\ app'.file_list.items = app.file_list.items
          /\ ListMoves => app'.file_list.selected_items = Marks]_vars

\* the second entry of the longest list is marked, the others are not, and
\* the first entry is selected: the selection has moved since the toggle
C31_Witness ==
    /\ Length = MaxItems
    /\ app.file_list.selected = Some(0)
    /\ \A i \in 1..MaxItems : Marks[i] <=> i = 2

-----------------------------------------------------------------------------
(* C32: the marks after update_items *)

\* the list has one mark per item and no entry is marked
Unmarked(fl) ==
    /\ Len(fl.selected_items) = Len(fl.items)
    /\ \A i \in 1..Len(fl.selected_items) : ~fl.selected_items[i]

\* update_items with any new list leaves one mark per item, all false
UpdateItemsClearsMarks ==
    \A items \in ItemLists : Unmarked(FileList_update_items(app.file_list, items))

\* this step handles, on the Browser screen, a key that refreshes the list,
\* changes the filter or changes the search text
Relists ==
    /\ app.state.tag = "Browser"
    /\ \/ KeyStep(Key("Delete"))
       \/ KeyStep(CharKey("2"))
       \/ KeyStep(CharKey("3"))
       \/ app.search_input.focused /\ KeyStep(CharKey("b"))

\* C32: update_items leaves one mark per item and every mark false; the list
\* always has one mark per item; after a refresh, a change of the filter or
\* a change of the search text no entry is marked, and a step removes the
\* file of an entry only if the entry is marked when Delete is handled
C32_RelistingClearsMarks ==
    /\ [](UpdateItemsClearsMarks /\ Len(Marks) = Length)
    /\ [][/\ Relists => Unmarked(app'.file_list)
          /\ \A q \in DOMAIN fs : q \notin DOMAIN fs' => (DeleteStep /\ q \in MarkedPaths)]_vars

\* a transcript was marked and is still stored and listed, the filter is
\* Reports after a change that cleared the mark, and the report was marked
\* afterwards and deleted
C32_Witness ==
    /\ app.state.tag = "Browser"
    /\ app.filter = "Reports"
    /\ ReportA \notin DOMAIN fs
    /\ TranscriptA \in DOMAIN fs /\ TranscriptB \in DOMAIN fs
    /\ Unmarked(app.file_list)

-----------------------------------------------------------------------------
(* C33: a render at a new width *)

\* the widths of the area the viewer is rendered in
AreaWidths == 2..(MaxWidth + 2)

\* the viewer after Viewer::render in an area of the given width and height
RenderedAt(area_width, area_height) == Viewer_render(TheViewer, area_width, area_height)

\* the viewer v holds the lines wrapped for the width, and its scroll is at
\* most the number of its lines less the visible rows of the height, or 0
WrappedAndClamped(v, area_width, area_height) ==
    /\ v.wrapped_lines = parse_markdown_to_lines(v.content, SatSub(area_width, 2))
    /\ v.last_known_width = area_width
    /\ v.scroll <= Max(0, Len(v.wrapped_lines) - SatSub(area_height, 2))

\* C33: a render at a width other than the width of the render before
\* leaves the lines wrapped for the new width, and the scroll at most the
\* number of wrapped lines less the visible rows, or 0
C33_NewWidthRewrapsAndClamps ==
    \A area_width \in AreaWidths \ {TheViewer.last_known_width},
       area_height \in ViewerHeights :
          WrappedAndClamped(RenderedAt(area_width, area_height), area_width, area_height)

\* the lines are wrapped for the widest area and the scroll is at the last
\* position that shows three rows, above the first line
C33_Witness ==
    /\ Rendered
    /\ TheViewer.last_known_width = MaxWidth + 2
    /\ TheViewer.scroll > 0
    /\ TheViewer.scroll = Len(TheViewer.wrapped_lines) - 3


(***************************************************************************)
(* C34: the modifiers of inline emphasis, strong, strikethrough and links  *)
(***************************************************************************)

\* the modifier the Start arm pushes for an inline tag
InlineTags == {"Emphasis", "Strong", "Strikethrough", "Link"}

ModifierOf(name) ==
    CASE name = "Emphasis" -> "ITALIC"
      [] name = "Strong" -> "BOLD"
      [] name = "Strikethrough" -> "CROSSED_OUT"
      [] name = "Link" -> "UNDERLINED"

\* the places of a content where an inline open tag, a text and the matching
\* close tag follow each other
EnclosedAt(content) ==
    {i \in 1..(Len(content) - 2) :
        /\ content[i].ev = "Start" /\ content[i].tag.name \in InlineTags
        /\ content[i + 1].ev = "Text"
        /\ content[i + 2].ev = "End" /\ content[i + 2].tag = content[i].tag}

\* the modifiers that enclose some text of a content
EnclosedModifiers(content) ==
    {ModifierOf(content[i].tag.name) : i \in EnclosedAt(content)}

\* the modifiers carried by the spans of the lines
SpanModifiers(lines) ==
    UNION {UNION {lines[i][j].style.mods : j \in DOMAIN lines[i]} : i \in DOMAIN lines}

\* C34: text that lies between an emphasis, strong, strikethrough or link
\* open tag and its close tag is emitted in a span that carries the tag's
\* modifier: when a content has such text, the lines rendered from it have a
\* span with that modifier
C34_EnclosedTextCarriesModifier ==
    Rendered =>
        EnclosedModifiers(TheViewer.content) \subseteq SpanModifiers(TheViewer.wrapped_lines)


(***************************************************************************)
(* C35: a job started after another was abandoned                          *)
(***************************************************************************)

\* the job the Processing screen was opened for: the one spawned last
ShownJob == Len(jobs)

\* the Processing screen of a job started while an earlier job still runs
ShowsLaterJob ==
    /\ app.state.tag = "Processing"
    /\ ShownJob > 1
    /\ jobs[1].pc # "done"

\* the messages a tick is about to drain that another job sent
FromOtherJob == {i \in DOMAIN processing_rx : processing_rx[i].job # ShownJob}

\* C35: when job A was abandoned with Esc and job B was started while A
\* still runs, every progress value, status text and log entry applied
\* while B's Processing screen is shown was sent by B, and B's Processing
\* screen is not ended by a terminal message of A
C35_ProcessingShowsOnlyItsJob ==
    [][(ShowsLaterJob /\ TickStep) => FromOtherJob = {}]_vars


-----------------------------------------------------------------------------
(* The specification of the cursors: the languages field was given one     *)
(* more character at its end (Enter on Home, Tab, End, 'a'), then the form *)
(* is edited, left and entered again.                                      *)

\* the world after the keys were handled one after the other
RECURSIVE AfterKeys(_, _)
AfterKeys(w, keys) ==
    IF keys = <<>> THEN w
    ELSE AfterKeys(handle_key(w, Head(keys), 0), Tail(keys))

InitCursor ==
    /\ fs = <<>>
    /\ recency = <<>>
    /\ Idle
    /\ app = AfterKeys([app |-> App_new(<<>>), rx |-> <<>>, jobs |-> <<>>, fs |-> <<>>,
                        recency |-> <<>>, applied |-> <<>>, outcome |-> "ok"],
                       <<Key("Enter"), Key("Tab"), Key("End"), CharKey("a")>>).app

\* the keys read while the cursors are moved
CursorKeys ==
    {Key("Esc"), Key("Enter"), Key("Tab"), Key("Left"), CharKey("a")}

CursorKey ==
    /\ running = "running"
    /\ \E key \in CursorKeys : Iterate(next_event(key), AreaHeight, 0)

NextCursor == CursorKey

SpecCursor == InitCursor /\ [][NextCursor]_vars

\* the cursor of a text field is a position of its value
CursorInValue(field) == field.cursor <= Len(field.value)

\* C36: in every reachable state the cursor of the identifier field, of the
\* languages field and of the search field is at most the length of the
\* field's value
C36_CursorWithinValue ==
    /\ CursorInValue(app.url_input)
    /\ CursorInValue(app.languages_input)
    /\ CursorInValue(app.search_input)


-----------------------------------------------------------------------------
(* C37: character keys while a text field has the focus *)

\* the printable characters read while the search field has the focus
SearchChars == {"b", " ", "2", "3", "/"}

\* the search field of the Browser screen has the input focus
Searching == app.state.tag = "Browser" /\ app.search_input.focused

\* the step inserts the character at the cursor of the search field and
\* neither quits nor changes the filter or the screen
InsertsOnly(c) ==
    /\ app'.search_input = InputField_handle_key(app.search_input, CharKey(c))
    /\ app'.filter = app.filter
    /\ app'.state = app.state
    /\ app'.should_quit = app.should_quit

\* C37: while a text field has the input focus, every printable character
\* key inserts that character at the cursor of the field and changes nothing
\* else: it does not quit the application, change the filter or change the
\* screen
C37_FocusedFieldTakesCharacter ==
    [][\A c \in SearchChars : (Searching /\ KeyStep(CharKey(c))) => InsertsOnly(c)]_vars


-----------------------------------------------------------------------------
(* C38: Esc on the Browser screen *)

\* the step leaves the search mode and stays on the Browser screen
LeavesSearchMode ==
    /\ app'.state.tag = "Browser"
    /\ ~app'.search_input.focused
    /\ app'.search_input.value = <<>>
    /\ app'.search_input.cursor = 0

\* C38: on the Browser screen, Esc while the search field is focused leaves
\* the search mode (the field is unfocused and cleared) and the screen stays
\* the Browser screen; only Esc outside the search mode returns to Home
C38_EscLeavesSearchMode ==
    [][(app.state.tag = "Browser" /\ KeyStep(Key("Esc"))) =>
          IF app.search_input.focused THEN LeavesSearchMode
          ELSE app'.state.tag = "Home"]_vars


-----------------------------------------------------------------------------
(* C39: the terminal when run_tui returns *)

\* the terminal: tui::init puts it into raw mode on the alternate screen
\* before the loop, tui::restore undoes both and is called at one place,
\* behind the loop, which only the break on should_quit reaches; an error of
\* draw, next_event or handle_event returns from inside the loop with `?`
terminal(outcome) == IF outcome = "quit" THEN "restored" ELSE "raw"

\* run_tui has returned, with Ok or with an error
run_tui_returned == running \in {"quit", "error"}

\* C39: whenever run_tui has returned, because of quit or because drawing,
\* polling or handle_event returned an error, the terminal has been restored
C39_RestoredOnReturn == run_tui_returned => terminal(running) = "restored"


-----------------------------------------------------------------------------
(* C40: the scroll offset after scroll keys and renders *)

\* the rows of text a render of the height shows
VisibleRows(area_height) == SatSub(area_height, 2)

\* the scroll offset of the viewer lies within its lines for the height
ScrollWithin(v, area_height) ==
    v.scroll <= Max(0, Len(v.wrapped_lines) - VisibleRows(area_height))

\* C40: after any sequence of scroll keys and renders, renders where only
\* the height changes included, the scroll offset is at most
\* max(0, wrapped lines - visible rows), the visible rows being the height of
\* the last render minus 2: whatever the keys before it, the viewer a render
\* leaves has its scroll within the bound of that render's height
C40_ScrollWithinLastRender ==
    \A area_width \in AreaWidths, area_height \in ViewerHeights :
        ScrollWithin(RenderedAt(area_width, area_height), area_height)

=============================================================================
